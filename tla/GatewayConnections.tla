------------------------- MODULE GatewayConnections -------------------------
(***************************************************************************)
(* The sockets one charger opens to the nodes of the OCPP gateway: which   *)
(* of them a node keeps in its registry, which one owns the charger's      *)
(* lease in Redis, which still renew it, and the events they publish.      *)
(*                                                                         *)
(* Connections are numbered in the order of their ULIDs.  A step runs to   *)
(* the next await at which another coroutine can change what it read; an   *)
(* event is stamped in one step and appended to the stream in another.     *)
(***************************************************************************)
EXTENDS Naturals, Sequences

CONSTANTS
    Node,
    NoNode,
    MaxConnections, \* bound: sockets the charger opens
    MaxMessages,    \* bound: commands to the charger and messages from it
    MaxFaults       \* bound: failures of Redis, of a close, and of processes

ASSUME GatewayAssumption ==
    /\ NoNode \notin Node
    /\ MaxConnections \in Nat /\ MaxMessages \in Nat
    /\ MaxFaults \in Nat

Connection == 1..MaxConnections
Nobody == 0

VARIABLES
    accepted,   \* sockets accepted so far
    node,       \* the node that accepted each socket
    stage,      \* how far the handler ocpp_socket of each socket is
    open,       \* sockets whose transport is not closed
    local,      \* the registry of each node, Nobody when it has no connection
    lease,      \* the connection named by the lease key, Nobody without a key
    renewal,    \* connections whose lease task runs
    leaving,    \* connections with an unregister under way
    pending,    \* connections on which a command awaits the charger's answer
    stamped,    \* events each connection stamped, its clock
    writing,    \* events stamped, whose append to the stream is under way
    stream,     \* events appended and not yet read by the platform
    messages,   \* commands and messages so far
    faults,
    latest,     \* history: the connection whose claim Redis applied last
    ended,      \* history: when each connection stamped its end, 0 before
    unheard     \* history: connections an event of which was lost

gatewayVars == <<accepted, node, stage, open, local, lease, renewal, leaving, pending,
                 stamped, writing, stream, messages, faults, latest, ended, unheard>>

\* The most events a connection stamps.
MaxEvents == MaxMessages + 2

Event == [connection: Connection,
          kind: {"connected", "seen", "response", "disconnected"},
          at: 1..MaxEvents]

Stage == {"none", "accepted", "claimed", "registered", "announcing", "serving",
          "ending", "refused", "over"}

GatewayTypeOK ==
    /\ accepted \in 0..MaxConnections
    /\ node \in [Connection -> Node \cup {NoNode}]
    /\ stage \in [Connection -> Stage]
    /\ open \subseteq Connection
    /\ local \in [Node -> Connection \cup {Nobody}]
    /\ lease \in Connection \cup {Nobody}
    /\ renewal \subseteq Connection /\ leaving \subseteq Connection
    /\ pending \subseteq Connection
    /\ stamped \in [Connection -> 0..MaxEvents]
    /\ writing \subseteq Event
    /\ stream \in Seq(Event)
    /\ messages \in 0..MaxMessages
    /\ faults \in 0..MaxFaults
    /\ latest \in Connection \cup {Nobody}
    /\ ended \in [Connection -> 0..MaxEvents]
    /\ unheard \subseteq Connection

GatewayInit ==
    /\ accepted = 0
    /\ node = [c \in Connection |-> NoNode]
    /\ stage = [c \in Connection |-> "none"]
    /\ open = {}
    /\ local = [n \in Node |-> Nobody]
    /\ lease = Nobody
    /\ renewal = {} /\ leaving = {} /\ pending = {}
    /\ stamped = [c \in Connection |-> 0]
    /\ writing = {} /\ stream = <<>>
    /\ messages = 0 /\ faults = 0
    /\ latest = Nobody
    /\ ended = [c \in Connection |-> 0]
    /\ unheard = {}

\* EventPublisher.emit up to its await: the event gets its connection and time.
Stamp(c, kind) ==
    /\ stamped' = [stamped EXCEPT ![c] = @ + 1]
    /\ writing' = writing \cup {[connection |-> c, kind |-> kind, at |-> stamped[c] + 1]}
    /\ UNCHANGED stream

Silent == UNCHANGED <<stamped, writing, stream>>

\* The handler of a connection waits for an event of its own to be appended; a
\* command's answer is emitted by the request that brought the command.
Awaits(c) == \E e \in writing : e.connection = c /\ e.kind # "response"

Fault == faults < MaxFaults /\ faults' = faults + 1

\* A socket is accepted and gets its connection ID.
Accept(n) ==
    LET c == accepted + 1 IN
    /\ accepted < MaxConnections
    /\ accepted' = c
    /\ node' = [node EXCEPT ![c] = n]
    /\ stage' = [stage EXCEPT ![c] = "accepted"]
    /\ open' = open \cup {c}
    /\ UNCHANGED <<local, lease, renewal, leaving, pending, messages, faults, latest, ended, unheard>>
    /\ Silent

\* The registry's lock of node n is held by a register that awaits Redis.
Locked(n) == \E c \in Connection : node[c] = n /\ stage[c] = "claimed"

\* register: Redis applies the claim over any other, once or, when its reply is
\* lost, again at the client's retry.
Claim(c) ==
    /\ \/ stage[c] = "accepted" /\ ~Locked(node[c]) /\ UNCHANGED faults
       \/ stage[c] = "claimed" /\ Fault
    /\ stage' = [stage EXCEPT ![c] = "claimed"]
    /\ lease' = c /\ latest' = c
    /\ UNCHANGED <<accepted, node, open, local, renewal, leaving, pending, messages,
                   ended, unheard>>
    /\ Silent

\* The reply arrives: the connection replaces the one in the node's registry,
\* whose socket is closed; a failure of that close is only logged.
Register(c) ==
    /\ stage[c] = "claimed"
    /\ stage' = [stage EXCEPT ![c] = "registered"]
    /\ local' = [local EXCEPT ![node[c]] = c]
    /\ renewal' = renewal \cup {c}
    /\ \/ open' = open \ {local[node[c]]} /\ UNCHANGED faults
       \/ local[node[c]] \in open /\ UNCHANGED open /\ Fault
    /\ UNCHANGED <<accepted, node, lease, leaving, pending, messages, latest, ended, unheard>>
    /\ Silent

\* ChargerConnected is emitted.
Announce(c) ==
    /\ stage[c] = "registered"
    /\ stage' = [stage EXCEPT ![c] = "announcing"]
    /\ Stamp(c, "connected")
    /\ UNCHANGED <<accepted, node, open, local, lease, renewal, leaving, pending,
                   messages, faults, latest, ended, unheard>>

\* Any later message of the charger that is emitted with the connection's ID.
Hear(c) ==
    /\ stage[c] = "serving" /\ c \in open /\ ~Awaits(c)
    /\ messages < MaxMessages
    /\ messages' = messages + 1
    /\ Stamp(c, "seen")
    /\ UNCHANGED <<accepted, node, stage, open, local, lease, renewal, leaving, pending,
                   faults, latest, ended, unheard>>

\* The charger is gone, or silent for too long.
PeerCloses(c) ==
    /\ stage[c] = "serving" /\ c \in open
    /\ open' = open \ {c}
    /\ UNCHANGED <<accepted, node, stage, local, lease, renewal, leaving, pending,
                   messages, faults, latest, ended, unheard>>
    /\ Silent

\* ChargerDisconnected is emitted.
EmitEnd(c) ==
    /\ Stamp(c, "disconnected")
    /\ ended' = [ended EXCEPT ![c] = stamped[c] + 1]

\* Redis is gone before the claim, or for good after it applied it: the lease
\* stays what Redis made it, and nothing was registered.
RegisterFails(c) ==
    /\ stage[c] = "claimed" \/ (stage[c] = "accepted" /\ ~Locked(node[c]))
    /\ stage' = [stage EXCEPT ![c] = "refused"]
    /\ open' = open \ {c}
    /\ Fault
    /\ EmitEnd(c)
    /\ UNCHANGED <<accepted, node, local, lease, renewal, leaving, pending, messages,
                   latest, unheard>>

\* The handler finds its socket closed.
End(c) ==
    /\ stage[c] = "serving" /\ c \notin open /\ ~Awaits(c)
    /\ stage' = [stage EXCEPT ![c] = "ending"]
    /\ EmitEnd(c)
    /\ UNCHANGED <<accepted, node, open, local, lease, renewal, leaving, pending,
                   messages, faults, latest, unheard>>

\* What follows the await of emit.  A handler whose ChargerConnected is out
\* serves the charger, one whose emit failed closes the socket; after
\* ChargerDisconnected a connection that was registered is unregistered.  The
\* OCPP library and the dispatch of a command end in an error reply.
Resume(c, kind, published) ==
    \/ /\ kind = "connected"
       /\ stage' = [stage EXCEPT ![c] = "serving"]
       /\ open' = IF published THEN open ELSE open \ {c}
       /\ UNCHANGED leaving
    \/ /\ kind = "disconnected"
       /\ stage' = [stage EXCEPT ![c] = "over"]
       /\ leaving' = IF stage[c] = "ending" THEN leaving \cup {c} ELSE leaving
       /\ UNCHANGED open
    \/ kind \in {"seen", "response"} /\ UNCHANGED <<stage, open, leaving>>

\* An event reaches the stream, behind whatever other coroutines appended since
\* it was stamped.
Publish(e) ==
    /\ e \in writing
    /\ writing' = writing \ {e}
    /\ stream' = Append(stream, e)
    /\ Resume(e.connection, e.kind, TRUE)
    /\ UNCHANGED <<accepted, node, local, lease, renewal, pending, stamped, messages,
                   faults, latest, ended, unheard>>

\* emit fails: the event is lost, or only Redis's reply.
PublishFails(e) ==
    /\ e \in writing
    /\ writing' = writing \ {e}
    /\ Fault
    /\ \/ stream' = Append(stream, e) /\ UNCHANGED unheard
       \/ unheard' = unheard \cup {e.connection} /\ UNCHANGED stream
    /\ Resume(e.connection, e.kind, FALSE)
    /\ UNCHANGED <<accepted, node, local, lease, renewal, pending, stamped, messages,
                   latest, ended>>

\* Mutant of Unregister: the lease is released whoever owns it.
ReleaseAnyLease(c) ==
    /\ c \in leaving /\ ~Locked(node[c])
    /\ leaving' = leaving \ {c}
    /\ IF local[node[c]] = c
       THEN local' = [local EXCEPT ![node[c]] = Nobody] /\ renewal' = renewal \ {c}
       ELSE UNCHANGED <<local, renewal>>
    /\ lease' = Nobody
    /\ UNCHANGED <<accepted, node, stage, open, pending, messages, faults, latest, ended, unheard>>
    /\ Silent

\* unregister, when the node's registry still holds the connection or another:
\* only the connection itself is removed and its lease task cancelled, only its
\* own lease is released, and a failed release is only logged.
Unregister(c) ==
    /\ c \in leaving /\ ~Locked(node[c])
    /\ leaving' = leaving \ {c}
    /\ IF local[node[c]] = c
       THEN local' = [local EXCEPT ![node[c]] = Nobody] /\ renewal' = renewal \ {c}
       ELSE UNCHANGED <<local, renewal>>
    /\ \/ lease' = (IF lease = c THEN Nobody ELSE lease) /\ UNCHANGED faults
       \/ lease = c /\ UNCHANGED lease /\ Fault
    /\ UNCHANGED <<accepted, node, stage, open, pending, messages, latest, ended, unheard>>
    /\ Silent

\* The connection closes its own socket and unregisters.
GiveUp(c) ==
    /\ open' = open \ {c}
    /\ leaving' = leaving \cup {c}
    /\ UNCHANGED <<accepted, node, stage, local, lease, pending, messages, latest, ended,
                   unheard>>
    /\ Silent

\* The close of a dead transport throws, and the unregister is left to the
\* handler, which finds the socket gone.
CloseThrows(c) ==
    /\ open' = open \ {c}
    /\ UNCHANGED <<accepted, node, stage, local, lease, leaving, pending, messages, latest,
                   ended, unheard>>
    /\ Silent

\* Mutant of RenewLease: the task stops, the socket stays open.
StopRenewing(c) ==
    /\ c \in renewal /\ lease # c
    /\ renewal' = renewal \ {c}
    /\ leaving' = leaving \cup {c}
    /\ UNCHANGED <<accepted, node, stage, open, local, lease, pending, messages, faults,
                   latest, ended, unheard>>
    /\ Silent

\* The lease task finds another owner, or none, at its next renewal; a close
\* that throws is repeated, and finds the socket closed.
RenewLease(c) ==
    /\ c \in renewal /\ lease # c
    /\ renewal' = renewal \ {c}
    /\ GiveUp(c) /\ UNCHANGED faults

\* The renewal itself fails.
RenewalFails(c) ==
    /\ c \in renewal
    /\ renewal' = renewal \ {c}
    /\ GiveUp(c) \/ CloseThrows(c)
    /\ Fault

\* The lease key runs out: a task that runs renews it three times in that time,
\* and a claim gets its reply, or fails, within it.
LeaseExpires ==
    /\ lease # Nobody /\ lease \notin renewal /\ stage[lease] # "claimed"
    /\ lease' = Nobody
    /\ UNCHANGED <<accepted, node, stage, open, local, renewal, leaving, pending,
                   messages, faults, latest, ended, unheard>>
    /\ Silent

\* A command reaches the node: get() renews the lease first, and gives up a
\* connection that lost it.
Dispatch(n) ==
    LET c == local[n] IN
    /\ c # Nobody /\ ~Locked(n)
    /\ \/ /\ lease = c /\ c \notin pending
          /\ messages < MaxMessages
          /\ messages' = messages + 1
          /\ pending' = pending \cup {c}
          /\ UNCHANGED <<accepted, node, stage, open, local, lease, renewal, leaving,
                         faults, latest, ended, unheard>>
          /\ Silent
       \/ lease # c /\ UNCHANGED renewal /\ GiveUp(c) /\ UNCHANGED faults
       \/ lease # c /\ UNCHANGED renewal /\ CloseThrows(c) /\ Fault

\* Mutant of CommandEnds: the command stays pending and ends again.
EndCommandAgain(c) ==
    /\ c \in pending
    /\ Stamp(c, "response")
    /\ UNCHANGED <<accepted, node, stage, open, local, lease, renewal, leaving, pending,
                   messages, faults, latest, ended, unheard>>

\* The charger answers, or the command times out, even when the socket is gone
\* by then: CommandResponse is emitted.
CommandEnds(c) ==
    /\ c \in pending
    /\ pending' = pending \ {c}
    /\ Stamp(c, "response")
    /\ UNCHANGED <<accepted, node, stage, open, local, lease, renewal, leaving,
                   messages, faults, latest, ended, unheard>>

\* A node process dies with its sockets, its tasks and the events on their way;
\* its leases run out.
Crash(n) ==
    LET lost == {c \in Connection : node[c] = n /\ stage[c] # "over"} IN
    /\ Fault
    /\ stage' = [c \in Connection |-> IF c \in lost THEN "over" ELSE stage[c]]
    /\ open' = {c \in open : node[c] # n}
    /\ local' = [local EXCEPT ![n] = Nobody]
    /\ renewal' = {c \in renewal : node[c] # n}
    /\ leaving' = {c \in leaving : node[c] # n}
    /\ pending' = {c \in pending : node[c] # n}
    /\ writing' = {e \in writing : node[e.connection] # n}
    /\ unheard' = unheard \cup lost
    /\ UNCHANGED <<accepted, node, lease, stamped, stream, messages, latest, ended>>

GatewayNext ==
    \/ \E n \in Node : Accept(n) \/ Dispatch(n) \/ Crash(n)
    \/ \E c \in Connection :
          \/ Claim(c) \/ Register(c) \/ RegisterFails(c) \/ Announce(c) \/ Hear(c)
          \/ PeerCloses(c) \/ End(c) \/ Unregister(c) \/ RenewLease(c) \/ RenewalFails(c)
          \/ CommandEnds(c)
    \/ \E e \in writing : Publish(e) \/ PublishFails(e)
    \/ LeaseExpires

-----------------------------------------------------------------------------
\* The connection whose claim was applied last owns the lease and its node's
\* registry as long as its lease task runs (docs/architecture/ocpp-gateway.md):
\* no older socket that is closed, unregistered, given up or registered late
\* takes them away from it.
LatestOwns ==
    latest \in renewal => lease = latest /\ local[node[latest]] = latest

\* A socket that is not the owner's is closed in the end, on whatever node the
\* charger connected since.
StaleCloses ==
    \A c \in Connection :
        c \in open /\ stage[c] = "serving" /\ lease # c ~> c \notin open \/ lease = c
=============================================================================
