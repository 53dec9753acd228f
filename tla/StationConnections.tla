------------------------- MODULE StationConnections -------------------------
(***************************************************************************)
(* What the platform knows of a charger's connection: its consumer reads   *)
(* the gateway's events in the order of the stream, once, and projects     *)
(* each on the station's row.                                              *)
(***************************************************************************)
EXTENDS GatewayConnections

VARIABLE row    \* charging_station_connections: the station's row

vars == <<gatewayVars, row>>

NoRow == [connection |-> Nobody, connected |-> FALSE, last |-> 0]

\* The type invariant of the gateway and of the platform's projection.
TypeOK ==
    /\ GatewayTypeOK
    /\ row \in [connection: Connection \cup {Nobody}, connected: BOOLEAN,
                last: 0..MaxEvents]

\* Mutants of Ignored: an event of an older connection is applied; a connection
\* that ended is shown again.
OlderApplied(e) ==
    e.connection = row.connection /\ (e.at < row.last \/ (~row.connected /\ e.kind # "disconnected"))

RevivedBySign(e) ==
    \/ e.connection < row.connection
    \/ e.connection = row.connection /\ e.at < row.last

\* Whether observe leaves the row alone: an event of an older connection, one
\* out of time, or a sign of life after the connection ended.
Ignored(e) ==
    \/ e.connection < row.connection
    \/ e.connection = row.connection /\ e.at < row.last
    \/ e.connection = row.connection /\ ~row.connected /\ e.kind # "disconnected"

Observe(e) ==
    row' = IF Ignored(e) THEN row
           ELSE [connection |-> e.connection, connected |-> e.kind # "disconnected",
                 last |-> e.at]

\* One event is consumed and acknowledged.
Consume ==
    /\ stream # <<>>
    /\ Observe(Head(stream))
    /\ stream' = Tail(stream)
    /\ UNCHANGED <<accepted, node, stage, open, local, lease, renewal, leaving, pending,
                   stamped, writing, messages, faults, latest, ended, unheard>>

\* The consumer dies between reading an event and applying it: only new
\* entries are ever read, so that this one stays pending for good.
LoseEvent ==
    /\ stream # <<>>
    /\ Fault
    /\ stream' = Tail(stream)
    /\ unheard' = unheard \cup {Head(stream).connection}
    /\ UNCHANGED <<accepted, node, stage, open, local, lease, renewal, leaving, pending,
                   stamped, writing, messages, latest, ended, row>>

Init == GatewayInit /\ row = NoRow

Next ==
    \/ GatewayNext /\ UNCHANGED row
    \/ Consume \/ LoseEvent

Spec == Init /\ [][Next]_vars

\* The lease tasks run.
FairSpec == Spec /\ \A c \in Connection : WF_vars(RenewLease(c) /\ UNCHANGED row)

-----------------------------------------------------------------------------
\* Once everything is published and read, and unless an event was lost, the
\* station's row is of the newest connection that published anything.  A
\* connection shown as gone is gone; one that is over is shown as connected only
\* when a command's answer stamped after its end overtook it: the late end of a
\* superseded socket and every other late answer change nothing.
StationShown ==
    LET heard == {c \in Connection : stamped[c] > 0} IN
    stream = <<>> /\ writing = {} =>
        \A c \in heard :
            (c \notin unheard /\ \A d \in heard : d <= c) =>
                /\ row.connection = c
                /\ ~row.connected => stage[c] = "over"
                /\ row.connected => stage[c] # "over" \/ row.last > ended[c]

\* A connection that was seen to end never comes back: a station is shown as
\* connected again by a newer connection only.
EndIsFinal == [][~row.connected /\ row'.connected => row'.connection > row.connection]_vars
=============================================================================
