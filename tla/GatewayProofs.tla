---------------------------- MODULE GatewayProofs ----------------------------
(***************************************************************************)
(* Theorems about StationConnections, for any nodes and bounds: the        *)
(* connection whose claim was applied last owns the lease; clocks and      *)
(* events stay within their bound; a station whose events are read is      *)
(* shown by its newest connection; a connection that was seen to end is    *)
(* never shown as connected again.                                         *)
(***************************************************************************)
EXTENDS StationConnections, TLAPS

\* The bounds and what a socket is numbered by.
LEMMA Bounds ==
  /\ NoNode \notin Node
  /\ MaxConnections \in Nat /\ MaxMessages \in Nat /\ MaxFaults \in Nat
  /\ Nobody \notin Connection /\ Connection \subseteq Nat /\ MaxEvents = MaxMessages + 2
  BY GatewayAssumption DEF Connection, Nobody, MaxEvents

\* A connection that was accepted has a number in use and a node.
Located ==
  /\ accepted \in Nat
  /\ stage \in [Connection -> Stage]
  /\ node \in [Connection -> Node \cup {NoNode}]
  /\ \A c \in Connection :
        IF stage[c] = "none" THEN node[c] = NoNode ELSE c <= accepted /\ node[c] \in Node

\* The kinds of events, and an event whose time is still unbounded.
EventKind == {"connected", "seen", "response", "disconnected"}
Draft == [connection : Connection, kind : EventKind, at : Nat]

\* A handler stands where it emitted the one event it waits for.
InFlight ==
  /\ stamped \in [Connection -> Nat]
  /\ ended \in [Connection -> Nat]
  /\ writing \subseteq Draft
  /\ \A e \in writing :
       /\ e.kind = "connected" => stage[e.connection] = "announcing"
       /\ e.kind = "seen" => stage[e.connection] = "serving"
       /\ e.kind = "disconnected" =>
            stage[e.connection] \in {"ending", "refused"} /\ e.at = ended[e.connection]
  /\ \A e, f \in writing :
       e.connection = f.connection /\ e.kind # "response" /\ f.kind # "response" => e = f

\* A connection that waits for nothing in its stage.
Idle == {"none", "accepted", "claimed", "registered"}

\* An event that gets its connection and time.
LEMMA StampedEvent ==
  ASSUME InFlight, NEW c \in Connection, NEW kind \in EventKind, Stamp(c, kind)
  PROVE  /\ stamped' \in [Connection -> Nat] /\ stamped'[c] = stamped[c] + 1
         /\ \A d \in Connection \ {c} : stamped'[d] = stamped[d]
         /\ [connection |-> c, kind |-> kind, at |-> stamped[c] + 1] \in Draft
         /\ writing' = writing \cup {[connection |-> c, kind |-> kind, at |-> stamped[c] + 1]}
         /\ stream' = stream
  BY DEF InFlight, Stamp, Draft

\* Nothing of connection c's own is on its way while it is idle.
LEMMA IdleAwaitsNothing ==
  ASSUME InFlight, NEW c \in Connection, stage[c] \in Idle
  PROVE  ~Awaits(c)
  BY DEF InFlight, Draft, EventKind, Awaits, Idle

\* An event of its own that a handler emits, and stands by.
LEMMA OwnStamped ==
  ASSUME InFlight, Located, NEW c \in Connection, ~Awaits(c),
         NEW kind \in {"connected", "seen", "disconnected"}, NEW now \in Stage,
         Stamp(c, kind), stage' = [stage EXCEPT ![c] = now],
         kind = "connected" => now = "announcing",
         kind = "seen" => now = "serving",
         kind = "disconnected" => now \in {"ending", "refused"},
         IF kind = "disconnected" THEN ended' = [ended EXCEPT ![c] = stamped[c] + 1]
                                  ELSE ended' = ended
  PROVE  InFlight'
<1> DEFINE new == [connection |-> c, kind |-> kind, at |-> stamped[c] + 1]
<1>1. /\ stamped' \in [Connection -> Nat] /\ new \in Draft /\ writing' = writing \cup {new}
  BY StampedEvent DEF EventKind
<1>2. ended' \in [Connection -> Nat] /\ \A d \in Connection \ {c} : ended'[d] = ended[d]
  BY DEF InFlight
<1>3. kind = "disconnected" => ended'[c] = stamped[c] + 1
  BY DEF InFlight
<1>4. stage'[c] = now /\ \A d \in Connection \ {c} : stage'[d] = stage[d]
  BY DEF Located
<1>5. /\ new.connection = c /\ new.kind = kind /\ new.at = stamped[c] + 1
      /\ \A e \in writing : e.connection \in Connection /\ e.kind \in EventKind
      /\ \A e \in writing : e.connection = c => e.kind = "response"
  BY DEF InFlight, Draft, Awaits
<1> HIDE DEF new
<1>6. ASSUME NEW e \in writing'
      PROVE  /\ e.kind = "connected" => stage'[e.connection] = "announcing"
             /\ e.kind = "seen" => stage'[e.connection] = "serving"
             /\ e.kind = "disconnected" =>
                  /\ stage'[e.connection] \in {"ending", "refused"}
                  /\ e.at = ended'[e.connection]
  <2>1. CASE e = new
    BY <1>3, <1>4, <1>5, <2>1
  <2>2. CASE e # new
    <3>1. e \in writing
      BY <1>1, <2>2
    <3>2. e.connection = c => e.kind = "response"
      BY <1>5, <3>1
    <3> QED
      BY <1>2, <1>4, <1>5, <3>1, <3>2 DEF InFlight
  <2> QED
    BY <2>1, <2>2
<1>7. ASSUME NEW e \in writing', NEW f \in writing', e.connection = f.connection,
             e.kind # "response", f.kind # "response"
      PROVE  e = f
  BY <1>1, <1>5, <1>7 DEF InFlight
<1> QED
  BY <1>1, <1>2, <1>6, <1>7 DEF InFlight

\* An event taken off its way, and the handler that goes on.
LEMMA Resumed ==
  ASSUME InFlight, Located, NEW e \in writing, NEW published,
         Resume(e.connection, e.kind, published), writing' = writing \ {e},
         UNCHANGED <<accepted, node, stamped, ended>>
  PROVE  InFlight' /\ Located'
<1> DEFINE c == e.connection
<1>1. c \in Connection /\ e.kind \in EventKind
  BY DEF InFlight, Draft
<1>2. /\ \A d \in Connection \ {c} : stage'[d] = stage[d]
      /\ stage' \in [Connection -> Stage]
      /\ e.kind \in {"seen", "response"} => stage' = stage
      /\ e.kind = "connected" => stage'[c] = "serving"
      /\ e.kind = "disconnected" => stage'[c] = "over"
  BY <1>1 DEF Resume, Located, Stage
<1>3. stage[c] = "none" => stage'[c] = "none"
  BY <1>1, <1>2 DEF InFlight, EventKind
<1>4. stage'[c] = "none" => stage[c] = "none"
  BY <1>1, <1>2 DEF EventKind
<1>5. Located'
  BY <1>1, <1>2, <1>3, <1>4 DEF Located
<1>6. ASSUME NEW f \in writing', f.connection = c, f.kind # "response"
      PROVE  e.kind = "response"
  BY <1>6 DEF InFlight
<1>7. \A f \in writing' : f \in writing /\ f.connection \in Connection
  BY DEF InFlight, Draft
<1> HIDE DEF c
<1>8. ASSUME NEW f \in writing', f.kind # "response"
      PROVE  stage'[f.connection] = stage[f.connection]
  BY <1>1, <1>2, <1>6, <1>7, <1>8
<1>9. \A f \in writing' :
        /\ f.kind = "connected" => stage'[f.connection] = "announcing"
        /\ f.kind = "seen" => stage'[f.connection] = "serving"
        /\ f.kind = "disconnected" =>
             stage'[f.connection] \in {"ending", "refused"} /\ f.at = ended'[f.connection]
  BY <1>7, <1>8 DEF InFlight
<1> QED
  BY <1>5, <1>7, <1>9 DEF InFlight

\* No step of the gateway disturbs the numbers and nodes of its connections, or
\* a handler that waits for its event.
LEMMA LocatedStep == Located /\ InFlight /\ [Next]_vars => Located' /\ InFlight'
<1> SUFFICES ASSUME Located, InFlight, [Next]_vars PROVE Located' /\ InFlight'
  OBVIOUS
<1>1. ASSUME UNCHANGED <<accepted, node, stage, stamped, writing, ended>>
      PROVE  Located' /\ InFlight'
  BY <1>1 DEF Located, InFlight
<1>2. ASSUME NEW c \in Connection, stage[c] \in Idle, NEW now \in Idle \ {"none"},
             stage' = [stage EXCEPT ![c] = now], UNCHANGED <<stamped, writing, ended>>
      PROVE  InFlight'
  <2>1. \A e \in writing : e.connection \in Connection /\ (e.kind # "response" => e.connection # c)
    BY <1>2, IdleAwaitsNothing DEF Awaits, InFlight, Draft
  <2>2. \A d \in Connection \ {c} : stage'[d] = stage[d]
    BY <1>2 DEF Located
  <2> QED
    BY <1>2, <2>1, <2>2 DEF InFlight
<1>3. ASSUME NEW n \in Node, Accept(n) PROVE Located' /\ InFlight'
  <2> DEFINE c == accepted + 1
  <2>1. /\ c \in Connection /\ stage[c] = "none"
        /\ stage' = [stage EXCEPT ![c] = "accepted"]
        /\ UNCHANGED <<stamped, writing, ended>>
    BY <1>3, Bounds DEF Accept, Silent, Located, Connection
  <2>2. Located'
    BY <1>3, <2>1, Bounds DEF Accept, Located, Stage, Connection
  <2> QED
    BY <1>2, <2>1, <2>2 DEF Idle
<1>4. ASSUME NEW c \in Connection, Claim(c) \/ Register(c) PROVE Located' /\ InFlight'
  <2>1. /\ stage[c] \in {"accepted", "claimed"} /\ UNCHANGED <<accepted, node, stamped, writing, ended>>
        /\ \/ stage' = [stage EXCEPT ![c] = "claimed"]
           \/ stage' = [stage EXCEPT ![c] = "registered"]
    BY <1>4 DEF Claim, Register, Silent
  <2>2. Located'
    BY <2>1 DEF Located, Stage
  <2> QED
    BY <1>2, <2>1, <2>2 DEF Idle
<1>5. ASSUME NEW c \in Connection, RegisterFails(c) \/ Announce(c) \/ End(c) \/ Hear(c)
      PROVE  Located' /\ InFlight'
  <2>1. /\ UNCHANGED <<accepted, node>> /\ stage[c] # "none"
        /\ \/ stage' = stage
           \/ stage' = [stage EXCEPT ![c] = "refused"]
           \/ stage' = [stage EXCEPT ![c] = "announcing"]
           \/ stage' = [stage EXCEPT ![c] = "ending"]
    BY <1>5 DEF RegisterFails, Announce, End, Hear
  <2>2. Located'
    BY <2>1 DEF Located, Stage
  <2>3. ~Awaits(c)
    BY <1>5, IdleAwaitsNothing DEF RegisterFails, Announce, End, Hear, Idle
  <2>4. CASE RegisterFails(c)
    BY <2>2, <2>3, <2>4, OwnStamped DEF RegisterFails, EmitEnd, Stage
  <2>5. CASE Announce(c)
    BY <2>2, <2>3, <2>5, OwnStamped DEF Announce, Stage
  <2>6. CASE End(c)
    BY <2>2, <2>3, <2>6, OwnStamped DEF End, EmitEnd, Stage
  <2>7. CASE Hear(c)
    <3>1. stage' = [stage EXCEPT ![c] = "serving"]
      BY <2>7 DEF Hear, Located
    <3> QED
      BY <2>2, <2>3, <2>7, <3>1, OwnStamped DEF Hear, Stage
  <2> QED
    BY <1>5, <2>2, <2>4, <2>5, <2>6, <2>7
<1>6. ASSUME NEW c \in Connection, CommandEnds(c) PROVE Located' /\ InFlight'
  <2> DEFINE new == [connection |-> c, kind |-> "response", at |-> stamped[c] + 1]
  <2>1. /\ stamped' \in [Connection -> Nat] /\ new \in Draft /\ writing' = writing \cup {new}
        /\ UNCHANGED <<accepted, node, stage, ended>> /\ new.kind = "response"
    BY <1>6, StampedEvent DEF CommandEnds, EventKind
  <2> HIDE DEF new
  <2> QED
    BY <2>1 DEF Located, InFlight
<1>7. ASSUME NEW e \in writing, Publish(e) \/ PublishFails(e) PROVE Located' /\ InFlight'
  BY <1>7, Resumed DEF Publish, PublishFails
<1>8. ASSUME NEW n \in Node, Crash(n) PROVE Located' /\ InFlight'
  <2>1. stage' = [c \in Connection |->
                     IF node[c] = n /\ stage[c] # "over" THEN "over" ELSE stage[c]]
    BY <1>8 DEF Crash
  <2>2. /\ UNCHANGED <<accepted, node, stamped, ended>>
        /\ writing' = {e \in writing : node[e.connection] # n}
    BY <1>8 DEF Crash
  <2>3. Located'
    BY <2>1, <2>2, Bounds DEF Located, Stage
  <2>4. \A e \in writing' : /\ e \in writing /\ e.connection \in Connection
                            /\ stage'[e.connection] = stage[e.connection]
    BY <2>1, <2>2 DEF InFlight, Draft
  <2> QED
    BY <2>2, <2>3, <2>4 DEF InFlight
<1>9. ASSUME NEW n \in Node, Dispatch(n) PROVE Located' /\ InFlight'
  BY <1>1, <1>9 DEF Dispatch, GiveUp, CloseThrows, Silent
<1>10. ASSUME NEW c \in Connection,
              PeerCloses(c) \/ Unregister(c) \/ RenewLease(c) \/ RenewalFails(c)
       PROVE  Located' /\ InFlight'
  BY <1>1, <1>10
  DEF PeerCloses, Unregister, RenewLease, RenewalFails, GiveUp, CloseThrows, Silent
<1>11. CASE LeaseExpires \/ Consume \/ LoseEvent \/ UNCHANGED vars
  BY <1>1, <1>11 DEF LeaseExpires, Silent, Consume, LoseEvent, vars, gatewayVars
<1> QED
  BY <1>3, <1>4, <1>5, <1>6, <1>7, <1>8, <1>9, <1>10, <1>11 DEF Next, GatewayNext

-----------------------------------------------------------------------------
\* Connections that were registered.
Known == {"registered", "announcing", "serving", "ending", "over"}

\* The registries, and the connections known to them.
Registered ==
  /\ local \in [Node -> Connection \cup {Nobody}]
  /\ renewal \subseteq Connection /\ leaving \subseteq Connection
  /\ latest \in Connection \cup {Nobody}
  /\ latest # Nobody => stage[latest] # "none"
  /\ \A c \in renewal \cup leaving : stage[c] \in Known
  /\ \A n \in Node : local[n] # Nobody => stage[local[n]] \in Known

\* A claim that waits for its reply is alone on its node, and was overtaken by
\* claims of other nodes only.
Claims ==
  \A c \in Connection : stage[c] = "claimed" =>
     /\ latest # Nobody
     /\ latest = c \/ node[latest] # node[c]
     /\ latest = c => lease = c
     /\ \A d \in Connection : stage[d] = "claimed" /\ node[d] = node[c] => d = c

\* The inductive invariant of the lease.
LeaseInv == Located /\ InFlight /\ Registered /\ Claims /\ LatestOwns

\* What the steps that touch neither lease nor registry may do to a handler.
Handled ==
  \A c \in Connection : /\ stage[c] = "none" <=> stage'[c] = "none"
                        /\ stage'[c] = "claimed" => stage[c] = "claimed"
                        /\ stage[c] \in Known => stage'[c] \in Known

\* Such steps keep what is owned.
LEMMA Undisturbed ==
  ASSUME LeaseInv, Handled, UNCHANGED <<node, local, lease, latest>>, renewal' \subseteq renewal,
         leaving' \subseteq Connection, \A c \in leaving' \ leaving : stage'[c] \in Known
  PROVE  Registered' /\ Claims' /\ LatestOwns'
<1>1. Registered'
  BY DEF LeaseInv, Registered, Handled
<1>2. Claims'
  BY DEF LeaseInv, Claims, Handled
<1>3. LatestOwns'
  BY DEF LeaseInv, LatestOwns
<1> QED
  BY <1>1, <1>2, <1>3

\* The last claim owns lease and registry until its own task ends.
LEMMA LeaseStep == LeaseInv /\ [Next]_vars => LeaseInv'
<1> SUFFICES ASSUME LeaseInv, [Next]_vars PROVE Registered' /\ Claims' /\ LatestOwns'
  BY LocatedStep DEF LeaseInv
<1>0. /\ stage \in [Connection -> Stage] /\ latest \in Connection \cup {Nobody}
      /\ local \in [Node -> Connection \cup {Nobody}] /\ Nobody \notin Connection
  BY Bounds DEF LeaseInv, Located, Registered
<1>1. ASSUME NEW n \in Node, Accept(n) PROVE Registered' /\ Claims' /\ LatestOwns'
  <2> DEFINE c == accepted + 1
  <2>1. /\ c \in Connection /\ stage[c] = "none"
        /\ stage' = [stage EXCEPT ![c] = "accepted"] /\ node' = [node EXCEPT ![c] = n]
        /\ UNCHANGED <<local, lease, renewal, leaving, latest>>
    BY <1>1, Bounds DEF Accept, LeaseInv, Located, Connection
  <2>2. /\ stage'[c] = "accepted" /\ \A d \in Connection \ {c} : stage'[d] = stage[d]
        /\ \A d \in Connection \ {c} : node'[d] = node[d]
    BY <1>0, <2>1 DEF LeaseInv, Located
  <2>3. latest # c
    BY <1>0, <2>1 DEF LeaseInv, Registered
  <2> HIDE DEF c
  <2>4. Registered'
    BY <1>0, <2>1, <2>2, <2>3 DEF LeaseInv, Registered, Known
  <2>5. Claims'
    BY <1>0, <2>1, <2>2, <2>3 DEF LeaseInv, Claims
  <2>6. LatestOwns'
    BY <1>0, <2>1, <2>2, <2>3 DEF LeaseInv, Registered, LatestOwns
  <2> QED
    BY <2>4, <2>5, <2>6
<1>2. ASSUME NEW c \in Connection, Claim(c) PROVE Registered' /\ Claims' /\ LatestOwns'
  <2>1. /\ stage[c] \in {"accepted", "claimed"} /\ stage' = [stage EXCEPT ![c] = "claimed"]
        /\ lease' = c /\ latest' = c /\ UNCHANGED <<node, local, renewal, leaving>>
    BY <1>2 DEF Claim
  <2>2. stage'[c] = "claimed" /\ \A d \in Connection \ {c} : stage'[d] = stage[d]
    BY <1>0, <2>1
  <2>3. \A d \in Connection \ {c} : stage[d] = "claimed" => node[d] # node[c]
    BY <1>2 DEF Claim, Locked, LeaseInv, Claims
  <2>4. c \notin renewal \cup leaving /\ \A n \in Node : local[n] # c
    BY <1>0, <2>1 DEF LeaseInv, Registered, Known
  <2>5. Registered'
    BY <1>0, <2>1, <2>2, <2>4 DEF LeaseInv, Registered
  <2>6. Claims'
    BY <1>0, <2>1, <2>2, <2>3 DEF LeaseInv, Claims
  <2>7. LatestOwns'
    BY <2>1, <2>4 DEF LatestOwns
  <2> QED
    BY <2>5, <2>6, <2>7
<1>3. ASSUME NEW c \in Connection, Register(c) PROVE Registered' /\ Claims' /\ LatestOwns'
  <2>1. /\ stage[c] = "claimed" /\ stage' = [stage EXCEPT ![c] = "registered"]
        /\ local' = [local EXCEPT ![node[c]] = c] /\ renewal' = renewal \cup {c}
        /\ UNCHANGED <<node, lease, leaving, latest>>
    BY <1>3 DEF Register
  <2>2. stage'[c] = "registered" /\ \A d \in Connection \ {c} : stage'[d] = stage[d]
    BY <1>0, <2>1
  <2>3. node[c] \in Node /\ (latest = c => lease = c) /\ (latest = c \/ node[latest] # node[c])
    BY <2>1 DEF LeaseInv, Located, Claims
  <2>4. /\ local'[node[c]] = c /\ local' \in [Node -> Connection \cup {Nobody}]
        /\ \A n \in Node \ {node[c]} : local'[n] = local[n]
    BY <1>0, <2>1, <2>3
  <2>5. Registered'
    BY <1>0, <2>1, <2>2, <2>4 DEF LeaseInv, Registered, Known
  <2>6. Claims'
    BY <1>0, <2>1, <2>2 DEF LeaseInv, Claims
  <2>7. LatestOwns'
    <3>1. CASE latest = c
      BY <2>1, <2>3, <2>4, <3>1 DEF LatestOwns
    <3>2. CASE latest # c /\ latest \in renewal
      <4>1. latest \in Connection /\ node[latest] \in Node
        BY <3>2 DEF LeaseInv, Registered, Located, Known
      <4> QED
        BY <2>1, <2>3, <2>4, <3>2, <4>1 DEF LeaseInv, LatestOwns
    <3> QED
      BY <2>1, <3>1, <3>2 DEF LatestOwns
  <2> QED
    BY <2>5, <2>6, <2>7
<1>4. ASSUME NEW c \in Connection, RegisterFails(c) \/ Announce(c) \/ End(c)
      PROVE  Registered' /\ Claims' /\ LatestOwns'
  <2>1. /\ UNCHANGED <<node, local, lease, latest, renewal, leaving>>
        /\ \/ /\ stage[c] \in {"accepted", "claimed"}
              /\ stage' = [stage EXCEPT ![c] = "refused"]
           \/ stage[c] = "registered" /\ stage' = [stage EXCEPT ![c] = "announcing"]
           \/ stage[c] = "serving" /\ stage' = [stage EXCEPT ![c] = "ending"]
    BY <1>4 DEF RegisterFails, Announce, End
  <2>2. Handled
    BY <1>0, <2>1 DEF Handled, Known
  <2> QED
    BY <2>1, <2>2, Undisturbed DEF LeaseInv, Registered
<1>5. ASSUME NEW c \in Connection, Unregister(c) PROVE Registered' /\ Claims' /\ LatestOwns'
  <2>1. /\ local' \in [Node -> Connection \cup {Nobody}] /\ renewal' \subseteq renewal
        /\ \A n \in Node : local'[n] \in {local[n], Nobody}
        /\ leaving' \subseteq leaving /\ UNCHANGED <<latest, stage, node>> /\ c \in leaving
        /\ lease' = lease \/ (lease = c /\ lease' = Nobody)
    BY <1>0, <1>5 DEF Unregister
  <2>2. Registered'
    BY <1>0, <2>1 DEF LeaseInv, Registered
  <2>3. stage[c] \in Known
    BY <2>1 DEF LeaseInv, Registered
  <2>4. Claims'
    BY <2>1, <2>3 DEF LeaseInv, Claims, Known
  <2>5. ASSUME latest \in renewal' PROVE lease' = latest /\ local'[node[latest]] = latest
    <3>1. lease = latest /\ local[node[latest]] = latest
      BY <2>1, <2>5 DEF LeaseInv, LatestOwns
    <3>2. c # latest
      BY <1>5, <2>5, <3>1 DEF Unregister
    <3>3. local'[node[latest]] = local[node[latest]]
      <4>1. CASE local[node[c]] = c
        <5>1. local' = [local EXCEPT ![node[c]] = Nobody] /\ node[latest] # node[c]
          BY <1>5, <3>1, <3>2, <4>1 DEF Unregister
        <5> QED
          BY <1>0, <5>1
      <4>2. CASE local[node[c]] # c
        BY <1>5, <4>2 DEF Unregister
      <4> QED
        BY <4>1, <4>2
    <3>4. lease' = lease
      BY <2>1, <3>1, <3>2
    <3> QED
      BY <3>1, <3>3, <3>4
  <2> QED
    BY <2>1, <2>2, <2>4, <2>5 DEF LatestOwns
<1>6. ASSUME NEW c \in Connection, stage[c] \in Known, GiveUp(c) \/ CloseThrows(c),
             renewal' \subseteq renewal
      PROVE  Registered' /\ Claims' /\ LatestOwns'
  <2>1. /\ UNCHANGED <<node, stage, local, lease, latest>>
        /\ leaving' \subseteq leaving \cup {c}
    BY <1>6 DEF GiveUp, CloseThrows
  <2>2. Handled
    BY <2>1 DEF Handled
  <2>3. leaving' \subseteq Connection
    BY <2>1 DEF LeaseInv, Registered
  <2> QED
    BY <1>6, <2>1, <2>2, <2>3, Undisturbed
<1>7. ASSUME NEW c \in Connection, RenewLease(c) \/ RenewalFails(c)
      PROVE  Registered' /\ Claims' /\ LatestOwns'
  <2>1. c \in renewal /\ renewal' \subseteq renewal /\ (GiveUp(c) \/ CloseThrows(c))
    BY <1>7 DEF RenewLease, RenewalFails
  <2>2. stage[c] \in Known
    BY <2>1 DEF LeaseInv, Registered
  <2> QED
    BY <1>6, <2>1, <2>2
<1>8. ASSUME UNCHANGED <<stage, node, local, lease, latest, renewal, leaving>>
      PROVE  Registered' /\ Claims' /\ LatestOwns'
  BY <1>8, Undisturbed DEF Handled, LeaseInv, Registered
<1>9. ASSUME NEW n \in Node, Dispatch(n) PROVE Registered' /\ Claims' /\ LatestOwns'
  <2>1. local[n] \in Connection /\ stage[local[n]] \in Known
    BY <1>0, <1>9 DEF Dispatch, LeaseInv, Registered
  <2>2. \/ UNCHANGED <<stage, node, local, lease, latest, renewal, leaving>>
        \/ UNCHANGED renewal /\ (GiveUp(local[n]) \/ CloseThrows(local[n]))
    BY <1>9 DEF Dispatch
  <2>3. CASE UNCHANGED renewal /\ (GiveUp(local[n]) \/ CloseThrows(local[n]))
    BY <1>6, <2>1, <2>3
  <2> QED
    BY <1>8, <2>2, <2>3
<1>10. ASSUME NEW e \in writing, Publish(e) \/ PublishFails(e)
       PROVE  Registered' /\ Claims' /\ LatestOwns'
  <2> DEFINE c == e.connection
  <2>1. /\ UNCHANGED <<node, local, lease, latest, renewal>>
        /\ Resume(c, e.kind, TRUE) \/ Resume(c, e.kind, FALSE)
    BY <1>10 DEF Publish, PublishFails
  <2>2. /\ c \in Connection
        /\ e.kind = "connected" => stage[c] = "announcing"
        /\ e.kind = "disconnected" => stage[c] \in {"ending", "refused"}
    BY DEF LeaseInv, InFlight, Draft
  <2>3. \/ stage' = stage /\ leaving' = leaving
        \/ /\ stage[c] = "announcing" /\ stage' = [stage EXCEPT ![c] = "serving"]
           /\ leaving' = leaving
        \/ /\ stage[c] \in {"ending", "refused"} /\ stage' = [stage EXCEPT ![c] = "over"]
           /\ leaving' \subseteq leaving \cup {c}
    BY <2>1, <2>2 DEF Resume
  <2> HIDE DEF c
  <2>4. Handled
    BY <1>0, <2>2, <2>3 DEF Handled, Known
  <2>5. leaving' \subseteq Connection /\ \A d \in leaving' \ leaving : stage'[d] \in Known
    BY <1>0, <2>2, <2>3 DEF LeaseInv, Registered, Known
  <2> QED
    BY <2>1, <2>4, <2>5, Undisturbed
<1>11. ASSUME NEW n \in Node, Crash(n) PROVE Registered' /\ Claims' /\ LatestOwns'
  <2>1. /\ renewal' = {c \in renewal : node[c] # n} /\ leaving' \subseteq leaving
        /\ local' = [local EXCEPT ![n] = Nobody]
        /\ latest' = latest /\ lease' = lease /\ node' = node
    BY <1>11 DEF Crash
  <2>2. \A c \in Connection : stage'[c] = stage[c] \/ (stage'[c] = "over" /\ node[c] = n)
    BY <1>11 DEF Crash
  <2>3. \A c \in Connection : node[c] = n => stage[c] # "none"
    BY Bounds DEF LeaseInv, Located
  <2>4. Registered'
    BY <1>0, <2>1, <2>2, <2>3 DEF LeaseInv, Registered, Known
  <2>5. Claims'
    BY <2>1, <2>2 DEF LeaseInv, Claims
  <2>6. LatestOwns'
    BY <1>0, <2>1 DEF LeaseInv, Registered, LatestOwns
  <2> QED
    BY <2>4, <2>5, <2>6
<1>12. CASE LeaseExpires
  <2>1. /\ lease \notin renewal /\ stage[lease] # "claimed" /\ lease' = Nobody
        /\ UNCHANGED <<stage, node, local, latest, renewal, leaving>>
    BY <1>12 DEF LeaseExpires
  <2> QED
    BY <2>1 DEF LeaseInv, Registered, Claims, LatestOwns
<1>13. ASSUME NEW c \in Connection, Hear(c) \/ PeerCloses(c) \/ CommandEnds(c)
       PROVE  Registered' /\ Claims' /\ LatestOwns'
  BY <1>8, <1>13 DEF Hear, PeerCloses, CommandEnds
<1>14. CASE Consume \/ LoseEvent \/ UNCHANGED vars
  BY <1>8, <1>14 DEF Consume, LoseEvent, vars, gatewayVars
<1> QED
  BY <1>1, <1>2, <1>3, <1>4, <1>5, <1>7, <1>9, <1>10, <1>11, <1>12, <1>13, <1>14
  DEF Next, GatewayNext

\* The invariant of the handlers holds from the start.
LEMMA LocatedInit == Init => Located /\ InFlight
  BY Bounds DEF Init, GatewayInit, Located, InFlight, Stage

\* The connection whose claim was applied last owns the lease, on whatever nodes
\* the others are and whenever their claims are answered.
THEOREM LatestOwnsCorrect == Spec => []LatestOwns
<1>1. Init => LeaseInv
  <2> SUFFICES ASSUME Init PROVE Registered /\ Claims /\ LatestOwns
    BY LocatedInit DEF LeaseInv
  <2> QED
    BY Bounds DEF Init, GatewayInit, Registered, Claims, LatestOwns
<1>2. LeaseInv => LatestOwns
  BY DEF LeaseInv
<1> QED
  BY <1>1, <1>2, LeaseStep, PTL DEF Spec

-----------------------------------------------------------------------------
\* The registries and the counters of the gateway hold values of their types.
SocketsTyped ==
  /\ accepted \in 0..MaxConnections
  /\ node \in [Connection -> Node \cup {NoNode}]
  /\ stage \in [Connection -> Stage]
  /\ open \subseteq Connection
  /\ local \in [Node -> Connection \cup {Nobody}]
  /\ lease \in Connection \cup {Nobody}
  /\ renewal \subseteq Connection /\ leaving \subseteq Connection
  /\ pending \subseteq Connection
  /\ messages \in 0..MaxMessages
  /\ faults \in 0..MaxFaults
  /\ latest \in Connection \cup {Nobody}
  /\ unheard \subseteq Connection

\* What the stream holds after an event was appended.
LEMMA Appended ==
  ASSUME NEW S, NEW s \in Seq(S), NEW e
  PROVE  /\ e \in S => Append(s, e) \in Seq(S)
         /\ Len(s) \in Nat /\ Len(Append(s, e)) = Len(s) + 1
         /\ Append(s, e)[Len(s) + 1] = e
         /\ \A i \in 1..Len(s) : Append(s, e)[i] = s[i] /\ s[i] \in S
<1>1. s \in Seq(S \cup {e}) /\ e \in S \cup {e}
  OBVIOUS
<1>2. /\ Len(s) \in Nat /\ Len(Append(s, e)) = Len(s) + 1
      /\ Append(s, e)[Len(s) + 1] = e
      /\ \A i \in 1..Len(s) : Append(s, e)[i] = s[i]
  BY <1>1
<1> QED
  BY <1>2

\* What the stream holds after its first event was read.
LEMMA Taken ==
  ASSUME NEW S, NEW s \in Seq(S), s # <<>>
  PROVE  /\ Tail(s) \in Seq(S) /\ Head(s) \in S /\ Head(s) = s[1]
         /\ Len(s) \in Nat /\ Len(s) >= 1 /\ Len(Tail(s)) = Len(s) - 1
         /\ \A i \in 1..Len(Tail(s)) : Tail(s)[i] = s[i + 1]
  OBVIOUS

\* Faults stay within their bound.
LEMMA FaultTyped ==
  ASSUME faults \in 0..MaxFaults, Fault \/ UNCHANGED faults
  PROVE  faults' \in 0..MaxFaults
  BY Bounds DEF Fault

\* No step of gateway or platform leaves those types.
LEMMA SocketsStep ==
  ASSUME SocketsTyped, Located, InFlight, stream \in Seq(Event), [Next]_vars
  PROVE  SocketsTyped'
<1> USE DEF SocketsTyped
<1>1. ASSUME NEW n \in Node, Accept(n) PROVE SocketsTyped'
  <2>1. accepted + 1 \in Connection /\ accepted' = accepted + 1
    BY <1>1, Bounds DEF Accept, Connection
  <2>2. accepted' \in 0..MaxConnections
    BY <2>1, Bounds DEF Connection
  <2> QED
    BY <1>1, <2>1, <2>2 DEF Accept, Stage
<1>2. ASSUME NEW c \in Connection, Claim(c) \/ Register(c) PROVE SocketsTyped'
  <2>1. node[c] \in Node
    BY <1>2 DEF Located, Claim, Register
  <2>2. faults' \in 0..MaxFaults
    BY <1>2, FaultTyped DEF Claim, Register
  <2> QED
    BY <1>2, <2>1, <2>2 DEF Claim, Register, Stage
<1>3. ASSUME NEW c \in Connection, RegisterFails(c) \/ Announce(c) \/ End(c)
      PROVE  SocketsTyped'
  <2>1. faults' \in 0..MaxFaults
    BY <1>3, FaultTyped DEF RegisterFails, Announce, End
  <2> QED
    BY <1>3, <2>1 DEF RegisterFails, Announce, End, Stage
<1>4. ASSUME NEW c \in Connection, Hear(c) PROVE SocketsTyped'
  BY <1>4, Bounds DEF Hear
<1>5. ASSUME NEW c \in Connection, Unregister(c) PROVE SocketsTyped'
  <2>1. faults' \in 0..MaxFaults
    BY <1>5, FaultTyped DEF Unregister
  <2>2. local' \in [Node -> Connection \cup {Nobody}] /\ renewal' \subseteq renewal
    BY <1>5 DEF Unregister
  <2> QED
    BY <1>5, <2>1, <2>2 DEF Unregister
<1>6. ASSUME NEW c \in Connection,
             PeerCloses(c) \/ RenewLease(c) \/ RenewalFails(c) \/ CommandEnds(c)
      PROVE  SocketsTyped'
  <2>1. faults' \in 0..MaxFaults
    BY <1>6, FaultTyped DEF PeerCloses, RenewLease, RenewalFails, CommandEnds
  <2> QED
    BY <1>6, <2>1
    DEF PeerCloses, RenewLease, RenewalFails, GiveUp, CloseThrows, CommandEnds
<1>7. ASSUME NEW n \in Node, Dispatch(n) PROVE SocketsTyped'
  <2>1. local[n] \in Connection
    BY <1>7 DEF Dispatch
  <2>2. CASE lease # local[n]
    <3>1. faults' \in 0..MaxFaults
      BY <1>7, <2>2, FaultTyped DEF Dispatch
    <3> QED
      BY <1>7, <2>1, <2>2, <3>1 DEF Dispatch, GiveUp, CloseThrows
  <2>3. CASE lease = local[n]
    <3>1. messages' \in 0..MaxMessages
      BY <1>7, <2>3, Bounds DEF Dispatch
    <3> QED
      BY <1>7, <2>1, <2>3, <3>1 DEF Dispatch
  <2> QED
    BY <2>2, <2>3
<1>8. ASSUME NEW e \in writing, Publish(e) \/ PublishFails(e) PROVE SocketsTyped'
  <2>1. faults' \in 0..MaxFaults
    BY <1>8, FaultTyped DEF Publish, PublishFails
  <2>2. e.connection \in Connection
    BY DEF InFlight, Draft
  <2>3. /\ stage' \in [Connection -> Stage] /\ open' \subseteq Connection
        /\ leaving' \subseteq Connection
    BY <1>8, <2>2 DEF Publish, PublishFails, Resume, Stage
  <2> QED
    BY <1>8, <2>1, <2>2, <2>3 DEF Publish, PublishFails
<1>9. ASSUME NEW n \in Node, Crash(n) PROVE SocketsTyped'
  <2>1. faults' \in 0..MaxFaults
    BY <1>9, FaultTyped DEF Crash
  <2>2. stage' \in [Connection -> Stage]
    BY <1>9 DEF Crash, Stage
  <2>3. local' \in [Node -> Connection \cup {Nobody}]
    BY <1>9 DEF Crash
  <2>4. open' \subseteq open /\ renewal' \subseteq renewal /\ leaving' \subseteq leaving
        /\ pending' \subseteq pending /\ unheard' \subseteq unheard \cup Connection
    BY <1>9 DEF Crash
  <2>5. UNCHANGED <<accepted, node, lease, messages, latest>>
    BY <1>9 DEF Crash
  <2> QED
    BY <2>1, <2>2, <2>3, <2>4, <2>5
<1>10. CASE Consume \/ LeaseExpires \/ UNCHANGED vars
  BY <1>10 DEF Consume, LeaseExpires, vars, gatewayVars
<1>11. CASE LoseEvent
  <2>1. Head(stream) \in Event
    BY <1>11, Taken DEF LoseEvent
  <2>2. Head(stream).connection \in Connection
    BY <2>1 DEF Event
  <2> QED
    BY <1>11, <2>2, FaultTyped DEF LoseEvent
<1> QED
  BY <1>1, <1>2, <1>3, <1>4, <1>5, <1>6, <1>7, <1>8, <1>9, <1>10, <1>11
  DEF Next, GatewayNext

-----------------------------------------------------------------------------
\* What a step does to the events.

\* A connection is over, and stays so.
Over(c) == stage[c] = "over"

\* A connection stamps one event when it starts to serve and one at its end, and
\* one for a command or message each.
Phase(c) ==
  CASE stage[c] \in {"ending", "refused", "over"} -> 2
    [] stage[c] \in {"announcing", "serving"} -> 1
    [] OTHER -> 0
Unsaid(c) == IF c \in pending THEN 1 ELSE 0

\* A step that stamps nothing: no connection gets an earlier phase, no command
\* comes back.
Quiet ==
  /\ UNCHANGED <<stamped, ended>>
  /\ \A c \in Connection : Phase(c)' >= Phase(c) /\ Unsaid(c)' <= Unsaid(c) + messages' - messages
  /\ messages' \in Nat /\ messages' >= messages

\* A step that reaches no event.
Still ==
  /\ UNCHANGED <<writing, stream, row, unheard>>
  /\ \A c \in Connection : Over(c)' <=> Over(c)

\* A connection stamps an event.  It is paid for by a message, a command that
\* ends, or the phase the connection enters; none that is over stamps its end.
Stamps(c, kind) ==
  /\ Stamp(c, kind) /\ UNCHANGED <<row, unheard>>
  /\ \/ UNCHANGED ended
     \/ ~Over(c) /\ ended' = [ended EXCEPT ![c] = stamped[c] + 1]
  /\ messages' \in Nat /\ messages' >= messages
  /\ Unsaid(c)' + messages + Phase(c) + 1 <= Unsaid(c) + messages' + Phase(c)'
  /\ \A d \in Connection \ {c} : Unsaid(d)' = Unsaid(d) /\ Phase(d)' = Phase(d)
  /\ \A d \in Connection : Over(d)' <=> Over(d)

\* Values of the counters.
LEMMA Counted ==
  ASSUME NEW c \in Connection
  PROVE  Phase(c) \in {0, 1, 2} /\ Unsaid(c) \in {0, 1}
  BY DEF Phase, Unsaid

\* Every step stamps an event or is quiet; a quiet one reaches no event unless it
\* appends, crashes or reads.
LEMMA Moves ==
  ASSUME SocketsTyped, SocketsTyped', Located, InFlight, [Next]_vars
  PROVE  \/ Quiet /\ Still
         \/ \E c \in Connection, kind \in EventKind : Stamps(c, kind)
         \/ Quiet /\ UNCHANGED row /\ \E e \in writing : Publish(e) \/ PublishFails(e)
         \/ Quiet /\ UNCHANGED row /\ \E n \in Node : Crash(n)
         \/ Quiet /\ UNCHANGED stage /\ (Consume \/ LoseEvent)
<1>0. /\ stage \in [Connection -> Stage] /\ messages \in Nat /\ messages' \in Nat
      /\ \A c \in Connection : Phase(c) \in {0, 1, 2} /\ Unsaid(c) \in {0, 1}
  BY Counted DEF SocketsTyped
<1>1. ASSUME UNCHANGED <<stamped, ended, messages, stage>>, pending' \subseteq pending
      PROVE  Quiet /\ \A c \in Connection : Over(c)' <=> Over(c)
  <2>1. \A c \in Connection : Phase(c)' = Phase(c) /\ Unsaid(c)' <= Unsaid(c)
    BY <1>0, <1>1 DEF Phase, Unsaid
  <2> QED
    BY <1>0, <1>1, <2>1 DEF Quiet, Over
<1>2. ASSUME UNCHANGED <<stamped, ended, messages, pending>>,
             NEW c \in Connection, Phase(c) = 0, NEW now \in {"accepted", "claimed", "registered"},
             stage' = [stage EXCEPT ![c] = now]
      PROVE  Quiet /\ \A d \in Connection : Over(d)' <=> Over(d)
  <2>1. /\ stage'[c] = now /\ ~Over(c)
        /\ \A d \in Connection \ {c} : stage'[d] = stage[d]
    BY <1>0, <1>2 DEF Over, Phase
  <2>2. \A d \in Connection : Phase(d)' = Phase(d) /\ Unsaid(d)' = Unsaid(d)
    BY <1>2, <2>1 DEF Phase, Unsaid
  <2> QED
    BY <1>0, <1>2, <2>1, <2>2 DEF Quiet, Over
<1>3. ASSUME NEW n \in Node, Accept(n), UNCHANGED row PROVE Quiet /\ Still
  <2> DEFINE c == accepted + 1
  <2>1. c \in Connection /\ stage[c] = "none" /\ stage' = [stage EXCEPT ![c] = "accepted"]
    BY <1>3, Bounds DEF Accept, Located, Connection
  <2>2. UNCHANGED <<stamped, ended, messages, pending, writing, stream, unheard>>
    BY <1>3 DEF Accept, Silent
  <2>3. Phase(c) = 0
    BY <2>1 DEF Phase
  <2> HIDE DEF c
  <2> QED
    BY <1>2, <1>3, <2>1, <2>2, <2>3 DEF Still
<1>4. ASSUME NEW c \in Connection, Claim(c) \/ Register(c), UNCHANGED row PROVE Quiet /\ Still
  <2>1. /\ UNCHANGED <<stamped, ended, messages, pending, writing, stream, unheard>>
        /\ stage[c] \in {"accepted", "claimed"}
        /\ \/ stage' = [stage EXCEPT ![c] = "claimed"]
           \/ stage' = [stage EXCEPT ![c] = "registered"]
    BY <1>4 DEF Claim, Register, Silent
  <2>2. Phase(c) = 0
    BY <2>1 DEF Phase
  <2> QED
    BY <1>2, <1>4, <2>1, <2>2 DEF Still
<1>5. ASSUME NEW c \in Connection, NEW kind \in EventKind, Stamp(c, kind), UNCHANGED <<row, unheard>>,
             ~Over(c), UNCHANGED ended \/ ended' = [ended EXCEPT ![c] = stamped[c] + 1],
             UNCHANGED <<messages, pending>>, NEW now \in {"announcing", "ending", "refused"},
             stage' = [stage EXCEPT ![c] = now], Phase(c)' >= Phase(c) + 1
      PROVE  Stamps(c, kind)
  <2>1. stage'[c] = now /\ \A d \in Connection \ {c} : stage'[d] = stage[d]
    BY <1>0, <1>5
  <2>2. /\ \A d \in Connection : Unsaid(d)' = Unsaid(d)
        /\ \A d \in Connection \ {c} : Phase(d)' = Phase(d)
    BY <1>5, <2>1 DEF Phase, Unsaid
  <2>3. \A d \in Connection : Over(d)' <=> Over(d)
    BY <1>5, <2>1 DEF Over
  <2>4. Phase(c)' \in {0, 1, 2}
    BY DEF Phase
  <2>5. Unsaid(c)' + messages + Phase(c) + 1 <= Unsaid(c) + messages' + Phase(c)'
    BY <1>0, <1>5, <2>2, <2>4
  <2> QED
    BY <1>0, <1>5, <2>2, <2>3, <2>5 DEF Stamps
<1>6. ASSUME NEW c \in Connection, Announce(c), UNCHANGED row PROVE Stamps(c, "connected")
  <2>1. stage[c] = "registered" /\ stage' = [stage EXCEPT ![c] = "announcing"]
    BY <1>6 DEF Announce
  <2>2. ~Over(c) /\ Phase(c) = 0 /\ Phase(c)' = 1
    BY <1>0, <2>1 DEF Over, Phase
  <2>3. Phase(c)' >= Phase(c) + 1
    BY <2>2
  <2>4. Stamp(c, "connected") /\ UNCHANGED <<unheard, ended, messages, pending>>
    BY <1>6 DEF Announce
  <2> QED
    BY <1>5, <1>6, <2>1, <2>2, <2>3, <2>4 DEF EventKind
<1>7. ASSUME NEW c \in Connection, RegisterFails(c) \/ End(c), UNCHANGED row
      PROVE  Stamps(c, "disconnected")
  <2>1. /\ stage[c] \in {"accepted", "claimed", "serving"}
        /\ \/ stage' = [stage EXCEPT ![c] = "ending"]
           \/ stage' = [stage EXCEPT ![c] = "refused"]
    BY <1>7 DEF RegisterFails, End
  <2>2. ~Over(c) /\ Phase(c) \in {0, 1} /\ Phase(c)' = 2
    BY <1>0, <2>1 DEF Over, Phase
  <2>3. Phase(c)' >= Phase(c) + 1
    BY <2>2
  <2> QED
    BY <1>5, <1>7, <2>1, <2>2, <2>3 DEF RegisterFails, End, EmitEnd, EventKind
<1>8. ASSUME NEW c \in Connection, Hear(c), UNCHANGED row PROVE Stamps(c, "seen")
  <2>1. \A d \in Connection : /\ Unsaid(d)' = Unsaid(d) /\ Phase(d)' = Phase(d)
                              /\ Over(d)' <=> Over(d)
    BY <1>8 DEF Hear, Unsaid, Phase, Over
  <2>2. messages' = messages + 1
    BY <1>8 DEF Hear
  <2>3. Unsaid(c)' + messages + Phase(c) + 1 <= Unsaid(c) + messages' + Phase(c)'
    BY <1>0, <2>1, <2>2
  <2>4. messages' >= messages
    BY <1>0, <2>2
  <2> QED
    BY <1>0, <1>8, <2>1, <2>3, <2>4 DEF Stamps, Hear
<1>9. ASSUME NEW c \in Connection, CommandEnds(c), UNCHANGED row PROVE Stamps(c, "response")
  <2>1. \A d \in Connection : Phase(d)' = Phase(d) /\ (Over(d)' <=> Over(d))
    BY <1>9 DEF CommandEnds, Phase, Over
  <2>2. messages' = messages /\ pending' = pending \ {c} /\ c \in pending
    BY <1>9 DEF CommandEnds
  <2>3. /\ Unsaid(c) = 1 /\ Unsaid(c)' = 0
        /\ \A d \in Connection \ {c} : Unsaid(d)' = Unsaid(d)
    BY <2>2 DEF Unsaid
  <2>4. Unsaid(c)' + messages + Phase(c) + 1 <= Unsaid(c) + messages' + Phase(c)'
    BY <1>0, <2>1, <2>2, <2>3
  <2> QED
    BY <1>0, <1>9, <2>1, <2>2, <2>3, <2>4 DEF Stamps, CommandEnds
<1>10. ASSUME NEW n \in Node, Dispatch(n), UNCHANGED row PROVE Quiet /\ Still
  <2>1. UNCHANGED <<stamped, ended, stage, writing, stream, unheard>>
    BY <1>10 DEF Dispatch, GiveUp, CloseThrows, Silent
  <2>2. CASE UNCHANGED <<messages, pending>>
    BY <1>1, <1>10, <2>1, <2>2 DEF Still
  <2>3. CASE messages' = messages + 1
    <3>1. \A c \in Connection : /\ Phase(c)' = Phase(c) /\ (Over(c)' <=> Over(c))
                                /\ Unsaid(c)' \in {0, 1}
      BY <2>1 DEF Phase, Over, Unsaid
    <3>2. ASSUME NEW c \in Connection PROVE Unsaid(c)' <= Unsaid(c) + messages' - messages
      BY <1>0, <2>3, <3>1
    <3>3. messages' >= messages /\ \A c \in Connection : Phase(c)' >= Phase(c)
      BY <1>0, <2>3, <3>1
    <3> QED
      BY <1>0, <1>10, <2>1, <3>1, <3>2, <3>3 DEF Quiet, Still
  <2>4. UNCHANGED <<messages, pending>> \/ messages' = messages + 1
    BY <1>10 DEF Dispatch, GiveUp, CloseThrows
  <2> QED
    BY <2>2, <2>3, <2>4
<1>11. ASSUME NEW c \in Connection, UNCHANGED row,
              PeerCloses(c) \/ Unregister(c) \/ RenewLease(c) \/ RenewalFails(c)
       PROVE  Quiet /\ Still
  <2>1. UNCHANGED <<stamped, ended, messages, pending, stage, writing, stream, unheard>>
    BY <1>11
    DEF PeerCloses, Unregister, RenewLease, RenewalFails, GiveUp, CloseThrows, Silent
  <2> QED
    BY <1>1, <1>11, <2>1 DEF Still
<1>12. ASSUME LeaseExpires \/ UNCHANGED vars, UNCHANGED row PROVE Quiet /\ Still
  <2>1. UNCHANGED <<stamped, ended, messages, pending, stage, writing, stream, unheard>>
    BY <1>12 DEF LeaseExpires, Silent, vars, gatewayVars
  <2> QED
    BY <1>1, <1>12, <2>1 DEF Still
<1>13. CASE Consume \/ LoseEvent
  <2>1. UNCHANGED <<stamped, ended, messages, pending, stage>>
    BY <1>13 DEF Consume, LoseEvent
  <2> QED
    BY <1>1, <1>13, <2>1
<1>14. ASSUME NEW e \in writing, Publish(e) \/ PublishFails(e) PROVE Quiet
  <2> DEFINE c == e.connection
  <2>1. /\ UNCHANGED <<stamped, ended, messages, pending>>
        /\ Resume(c, e.kind, TRUE) \/ Resume(c, e.kind, FALSE)
    BY <1>14 DEF Publish, PublishFails
  <2>2. /\ c \in Connection
        /\ e.kind = "connected" => stage[c] = "announcing"
        /\ e.kind = "disconnected" => stage[c] \in {"ending", "refused"}
    BY DEF InFlight, Draft
  <2>3. \/ stage' = stage
        \/ stage[c] = "announcing" /\ stage' = [stage EXCEPT ![c] = "serving"]
        \/ stage[c] \in {"ending", "refused"} /\ stage' = [stage EXCEPT ![c] = "over"]
    BY <2>1, <2>2 DEF Resume
  <2> HIDE DEF c
  <2>4. \A d \in Connection : Phase(d)' = Phase(d) /\ Unsaid(d)' = Unsaid(d)
    BY <1>0, <2>1, <2>2, <2>3 DEF Phase, Unsaid
  <2> QED
    BY <1>0, <2>1, <2>4 DEF Quiet
<1>15. ASSUME NEW n \in Node, Crash(n) PROVE Quiet
  <2>1. UNCHANGED <<stamped, ended, messages>> /\ pending' \subseteq pending
    BY <1>15 DEF Crash
  <2>2. \A c \in Connection : stage'[c] = stage[c] \/ stage'[c] = "over"
    BY <1>15 DEF Crash
  <2>3. \A c \in Connection : Phase(c)' >= Phase(c)
    BY <1>0, <2>2 DEF Phase
  <2>4. \A c \in Connection : Unsaid(c)' <= Unsaid(c)
    BY <2>1 DEF Unsaid
  <2> QED
    BY <1>0, <2>1, <2>3, <2>4 DEF Quiet
<1> QED
  BY <1>3, <1>4, <1>6, <1>7, <1>8, <1>9, <1>10, <1>11, <1>12, <1>13, <1>14, <1>15
  DEF Next, GatewayNext, EventKind, vars

-----------------------------------------------------------------------------
\* The clocks run with commands, messages and phases.
Clocked ==
  \A c \in Connection :
    stamped[c] + Unsaid(c) <= messages + Phase(c) /\ ended[c] <= stamped[c]

\* The clock of a connection runs with its commands and messages.
LEMMA ClockedStep ==
  ASSUME SocketsTyped, SocketsTyped', Located, InFlight, InFlight', Clocked, [Next]_vars
  PROVE  Clocked'
<1> SUFFICES ASSUME NEW c \in Connection
             PROVE  stamped'[c] + Unsaid(c)' <= messages' + Phase(c)' /\ ended'[c] <= stamped'[c]
  BY DEF Clocked
<1>1. /\ stamped[c] \in Nat /\ ended[c] \in Nat /\ messages \in Nat /\ messages' \in Nat
      /\ stamped[c] + Unsaid(c) <= messages + Phase(c) /\ ended[c] <= stamped[c]
      /\ Phase(c) \in Nat /\ Unsaid(c) \in Nat
  BY Counted DEF Clocked, SocketsTyped, InFlight
<1>2. Phase(c)' \in Nat /\ Unsaid(c)' \in Nat
  BY DEF Phase, Unsaid
<1>3. CASE Quiet
  <2>1. /\ stamped'[c] = stamped[c] /\ ended'[c] = ended[c]
        /\ Phase(c)' >= Phase(c) /\ Unsaid(c)' <= Unsaid(c) + messages' - messages
    BY <1>3 DEF Quiet
  <2> QED
    BY <1>1, <1>2, <2>1
<1>4. ASSUME NEW d \in Connection, NEW kind \in EventKind, Stamps(d, kind)
      PROVE  stamped'[c] + Unsaid(c)' <= messages' + Phase(c)' /\ ended'[c] <= stamped'[c]
  <2>1. /\ stamped'[d] = stamped[d] + 1
        /\ \A x \in Connection \ {d} : stamped'[x] = stamped[x]
    BY <1>4, StampedEvent DEF Stamps
  <2>2. /\ ended'[d] \in {ended[d], stamped[d] + 1}
        /\ \A x \in Connection \ {d} : ended'[x] = ended[x]
    BY <1>4 DEF Stamps, InFlight
  <2>3. CASE d = c
    <3>1. Unsaid(c)' + messages + Phase(c) + 1 <= Unsaid(c) + messages' + Phase(c)'
      BY <1>4, <2>3 DEF Stamps
    <3>2. stamped'[c] = stamped[c] + 1 /\ ended'[c] \in {ended[c], stamped[c] + 1}
      BY <2>1, <2>2, <2>3
    <3>3. ended'[c] <= stamped'[c]
      BY <1>1, <3>2
    <3>4. stamped'[c] + Unsaid(c)' <= messages' + Phase(c)'
      BY <1>1, <1>2, <3>1, <3>2
    <3> QED
      BY <3>3, <3>4
  <2>4. CASE d # c
    <3>1. /\ Unsaid(c)' = Unsaid(c) /\ Phase(c)' = Phase(c) /\ messages' >= messages
          /\ stamped'[c] = stamped[c] /\ ended'[c] = ended[c]
      BY <1>4, <2>1, <2>2, <2>4 DEF Stamps
    <3> QED
      BY <1>1, <3>1
  <2> QED
    BY <2>3, <2>4
<1> QED
  BY <1>3, <1>4, Moves

-----------------------------------------------------------------------------
\* What the platform's row can be.
Row == [connection : Connection \cup {Nobody}, connected : BOOLEAN, last : 0..MaxEvents]

\* Events carry times their connection has reached, and so does the row.
Timed ==
  /\ stream \in Seq(Event) /\ row \in Row
  /\ \A e \in writing : e.at >= 1 /\ e.at <= stamped[e.connection]
  /\ \A i \in 1..Len(stream) : stream[i].at <= stamped[stream[i].connection]
  /\ row.connection # Nobody => row.last \in 1..stamped[row.connection]

\* The most events a connection stamps.
Bounded ==
  stamped \in [Connection -> 0..MaxEvents] /\ ended \in [Connection -> 0..MaxEvents]

\* The clocks stay below the bound of events.
LEMMA ClocksBounded ==
  SocketsTyped /\ InFlight /\ Clocked => Bounded
<1> SUFFICES ASSUME SocketsTyped, InFlight, Clocked PROVE Bounded
  OBVIOUS
<1>1. ASSUME NEW c \in Connection
      PROVE  stamped[c] \in 0..MaxEvents /\ ended[c] \in 0..MaxEvents
  <2>1. /\ stamped[c] \in Nat /\ ended[c] \in Nat /\ messages \in 0..MaxMessages
        /\ stamped[c] + Unsaid(c) <= messages + Phase(c) /\ ended[c] <= stamped[c]
    BY DEF Clocked, SocketsTyped, InFlight
  <2>2. Unsaid(c) \in {0, 1} /\ Phase(c) \in {0, 1, 2}
    BY DEF Unsaid, Phase
  <2> QED
    BY <2>1, <2>2, Bounds
<1> QED
  BY <1>1 DEF InFlight, Bounded

\* An event on its way is an event.
LEMMA WritingTyped ==
  ASSUME SocketsTyped, InFlight, Clocked, Timed PROVE writing \subseteq Event
<1> SUFFICES ASSUME NEW e \in writing PROVE e \in Event
  OBVIOUS
<1>1. e \in Draft /\ e.at >= 1 /\ e.at <= stamped[e.connection]
  BY DEF InFlight, Timed
<1>2. stamped[e.connection] \in 0..MaxEvents /\ e.at \in Nat
  BY <1>1, ClocksBounded DEF Bounded, Draft
<1>3. e.at \in 1..MaxEvents
  BY <1>1, <1>2, Bounds
<1> QED
  BY <1>1, <1>3 DEF Event, Draft, EventKind

\* No clock runs back.
Forward == \A c \in Connection : stamped'[c] >= stamped[c]

\* Clocks only run forward.
LEMMA ClocksForward ==
  ASSUME SocketsTyped, SocketsTyped', Located, InFlight, [Next]_vars
  PROVE  Forward
<1>1. stamped \in [Connection -> Nat]
  BY DEF InFlight
<1>2. ASSUME NEW c \in Connection, stamped' = [stamped EXCEPT ![c] = @ + 1]
      PROVE  Forward
  BY <1>1, <1>2 DEF Forward
<1>3. CASE UNCHANGED stamped
  BY <1>1, <1>3 DEF Forward
<1> QED
  BY <1>2, <1>3, Moves DEF Quiet, Stamps, Stamp

\* What is on the stream and in the row stays behind the clocks.
LEMMA TimedBehind ==
  ASSUME Timed, InFlight, Forward, UNCHANGED <<stream, row>>,
         stamped' \in [Connection -> Nat],
         \A e \in writing' : e \in writing \/ (e.at >= 1 /\ e.at <= stamped'[e.connection])
  PROVE  Timed'
<1>1. \A c \in Connection : stamped[c] \in Nat /\ stamped'[c] \in Nat /\ stamped'[c] >= stamped[c]
  BY DEF InFlight, Forward
<1>2. \A i \in 1..Len(stream) : /\ stream[i].connection \in Connection
                                /\ stream[i].at \in Nat
  <2>1. \A i \in 1..Len(stream) : stream[i] \in Event
    BY DEF Timed
  <2> QED
    BY <2>1 DEF Event
<1>3. \A i \in 1..Len(stream) : stream[i].at <= stamped'[stream[i].connection]
  BY <1>1, <1>2 DEF Timed
<1>4. row.connection # Nobody => row.last \in 1..stamped'[row.connection]
  BY <1>1 DEF Timed, Row
<1>5. \A e \in writing : e.connection \in Connection /\ e.at \in Nat
  BY DEF InFlight, Draft
<1>6. \A e \in writing' : e.at >= 1 /\ e.at <= stamped'[e.connection]
  BY <1>1, <1>5 DEF Timed
<1> QED
  BY <1>3, <1>4, <1>6 DEF Timed

\* An event that reaches the stream is not ahead of its connection.
LEMMA TimedAppended ==
  ASSUME Timed, UNCHANGED <<row, stamped>>, NEW e \in writing, e \in Event,
         stream' = Append(stream, e), writing' \subseteq writing
  PROVE  Timed'
<1>1. /\ stream' \in Seq(Event) /\ Len(stream) \in Nat /\ Len(stream') = Len(stream) + 1
      /\ stream'[Len(stream) + 1] = e
      /\ \A i \in 1..Len(stream) : stream'[i] = stream[i]
  BY Appended DEF Timed
<1>2. ASSUME NEW i \in 1..Len(stream')
      PROVE  stream'[i].at <= stamped'[stream'[i].connection]
  <2>1. CASE i = Len(stream) + 1
    BY <1>1, <2>1 DEF Timed
  <2>2. CASE i \in 1..Len(stream)
    BY <1>1, <2>2 DEF Timed
  <2> QED
    BY <1>1, <2>1, <2>2
<1> QED
  BY <1>1, <1>2 DEF Timed

\* Reading one event leaves the others as they were.
LEMMA TimedTaken ==
  ASSUME Timed, InFlight, stream # <<>>, stream' = Tail(stream), UNCHANGED <<stamped, writing>>,
         row' = row \/ Observe(Head(stream))
  PROVE  Timed'
<1>1. /\ stream' \in Seq(Event) /\ Head(stream) \in Event /\ Head(stream) = stream[1]
      /\ Len(stream) \in Nat /\ Len(stream) >= 1 /\ Len(stream') = Len(stream) - 1
      /\ \A i \in 1..Len(stream') : stream'[i] = stream[i + 1]
  BY Taken DEF Timed
<1>2. \A i \in 1..Len(stream') : stream'[i].at <= stamped'[stream'[i].connection]
  BY <1>1 DEF Timed
<1>3. CASE row' = row
  BY <1>1, <1>2, <1>3 DEF Timed
<1>4. CASE row' = [connection |-> Head(stream).connection,
                   connected |-> Head(stream).kind # "disconnected",
                   last |-> Head(stream).at]
  <2>1. Head(stream).connection \in Connection /\ Head(stream).at \in 1..MaxEvents
    BY <1>1 DEF Event
  <2>2. /\ row'.connection = Head(stream).connection /\ row'.last = Head(stream).at
        /\ row' \in Row
    BY <1>4, <2>1, Bounds DEF Row
  <2>3. Head(stream).at <= stamped[Head(stream).connection]
    BY <1>1 DEF Timed
  <2>4. stamped[Head(stream).connection] \in Nat
    BY <2>1 DEF InFlight
  <2>5. row'.last \in 1..stamped'[row'.connection]
    BY <2>1, <2>2, <2>3, <2>4, Bounds
  <2> QED
    BY <1>1, <1>2, <2>2, <2>5 DEF Timed
<1> QED
  BY <1>3, <1>4 DEF Observe

\* No event, and no row, is ahead of its connection.
LEMMA TimedStep ==
  ASSUME SocketsTyped, SocketsTyped', Located, InFlight, InFlight', Clocked, Timed, [Next]_vars
  PROVE  Timed'
<1>1. Forward /\ stamped' \in [Connection -> Nat]
  BY ClocksForward DEF InFlight
<1>2. CASE Quiet /\ Still
  BY <1>1, <1>2, TimedBehind DEF Still
<1>3. ASSUME NEW c \in Connection, NEW kind \in EventKind, Stamps(c, kind) PROVE Timed'
  <2> DEFINE new == [connection |-> c, kind |-> kind, at |-> stamped[c] + 1]
  <2>1. /\ stamped'[c] = stamped[c] + 1 /\ writing' = writing \cup {new}
        /\ UNCHANGED <<stream, row>> /\ stamped[c] \in Nat
    BY <1>3, StampedEvent DEF Stamps, InFlight
  <2>2. new.at >= 1 /\ new.at <= stamped'[new.connection]
    BY <2>1
  <2> HIDE DEF new
  <2> QED
    BY <1>1, <2>1, <2>2, TimedBehind
<1>4. ASSUME Quiet, UNCHANGED row, NEW e \in writing, Publish(e) \/ PublishFails(e)
      PROVE  Timed'
  <2>1. /\ writing' \subseteq writing /\ UNCHANGED stamped
        /\ UNCHANGED stream \/ stream' = Append(stream, e)
    BY <1>4 DEF Publish, PublishFails
  <2>2. CASE UNCHANGED stream
    BY <1>1, <1>4, <2>1, <2>2, TimedBehind
  <2>3. CASE stream' = Append(stream, e)
    BY <1>4, <2>1, <2>3, TimedAppended, WritingTyped
  <2> QED
    BY <2>1, <2>2, <2>3
<1>5. ASSUME NEW n \in Node, Crash(n), UNCHANGED row PROVE Timed'
  <2>1. writing' \subseteq writing /\ UNCHANGED stream
    BY <1>5 DEF Crash
  <2> QED
    BY <1>1, <1>5, <2>1, TimedBehind
<1>6. CASE Consume \/ LoseEvent
  BY <1>6, TimedTaken DEF Consume, LoseEvent
<1> QED
  BY <1>2, <1>3, <1>4, <1>5, <1>6, Moves

\* The inductive invariant of the types.
TypeInv == Located /\ InFlight /\ SocketsTyped /\ Clocked /\ Timed

\* The parts of the invariant hold each other up.
LEMMA TypeStep == TypeInv /\ [Next]_vars => TypeInv'
<1> SUFFICES ASSUME TypeInv, [Next]_vars PROVE TypeInv'
  OBVIOUS
<1>1. Located' /\ InFlight'
  BY LocatedStep DEF TypeInv
<1>2. SocketsTyped'
  BY SocketsStep DEF TypeInv, Timed
<1>3. Clocked'
  BY <1>1, <1>2, ClockedStep DEF TypeInv
<1>4. Timed'
  BY <1>1, <1>2, TimedStep DEF TypeInv
<1> QED
  BY <1>1, <1>2, <1>3, <1>4 DEF TypeInv

\* A connection stamps no more events than it has messages, and two.
THEOREM AlwaysTyped == Spec => []TypeInv
<1>1. Init => TypeInv
  <2> SUFFICES ASSUME Init PROVE TypeInv
    OBVIOUS
  <2> USE Bounds DEF Init, GatewayInit
  <2>1. SocketsTyped
    BY DEF SocketsTyped, Stage
  <2>2. Clocked
    BY DEF Clocked, Unsaid, Phase
  <2>3. Timed
    BY DEF Timed, NoRow, Row
  <2> QED
    BY <2>1, <2>2, <2>3, LocatedInit DEF TypeInv
<1> QED
  BY <1>1, TypeStep, PTL DEF Spec

\* All that gateway and platform keep has its type, events and times within
\* what the messages allow: the handlers emit nothing twice.
THEOREM TypeOKCorrect == Spec => []TypeOK
<1>1. TypeInv => TypeOK
  BY ClocksBounded, WritingTyped
  DEF TypeInv, TypeOK, GatewayTypeOK, SocketsTyped, Bounded, Timed, Row
<1> QED
  BY <1>1, AlwaysTyped, PTL

-----------------------------------------------------------------------------
\* Connections and times are numbers.
LEMMA Numbers ==
  /\ \A e \in Event : e.connection \in Nat /\ e.at \in Nat
  /\ \A w \in Row : w.connection \in Nat /\ w.last \in Nat
<1>1. MaxEvents \in Nat /\ Nobody \in Nat /\ Connection \subseteq Nat
  BY Bounds DEF Nobody
<1>2. 1..MaxEvents \subseteq Nat /\ 0..MaxEvents \subseteq Nat
  BY <1>1
<1> QED
  BY <1>1, <1>2 DEF Event, Row

\* The platform's row ignores an event, or takes everything from it.
LEMMA Applied ==
  ASSUME Timed, Consume, row' # row
  PROVE  LET e == Head(stream) IN
         /\ row'.connection = e.connection /\ row'.last = e.at
         /\ row'.connected <=> e.kind # "disconnected"
         /\ row.connection <= e.connection
         /\ row.connection = e.connection => row.last <= e.at
<1> DEFINE e == Head(stream)
<1>1. e \in Event
  BY Taken DEF Timed, Consume
<1>2. /\ e.connection \in Nat /\ e.at \in Nat
      /\ row.connection \in Nat /\ row.last \in Nat
  BY <1>1, Numbers DEF Timed
<1>3. /\ ~Ignored(e)
      /\ row' = [connection |-> e.connection, connected |-> e.kind # "disconnected",
                 last |-> e.at]
  BY DEF Consume, Observe
<1> HIDE DEF e
<1>4. /\ row.connection <= e.connection
      /\ row.connection = e.connection => row.last <= e.at
  BY <1>2, <1>3 DEF Ignored
<1>5. /\ row'.connection = e.connection /\ row'.last = e.at
      /\ row'.connected <=> e.kind # "disconnected"
  BY <1>3
<1> QED
  BY <1>4, <1>5 DEF e

\* Neither the stream nor the row says that c ended.
Unended(c) ==
  /\ \A i \in 1..Len(stream) : stream[i].connection = c => stream[i].kind # "disconnected"
  /\ row.connection = c => row.connected

\* A connection that is not over was never reported as ended.
Alive == \A c \in Connection : ~Over(c) => Unended(c)

\* A connection whose end is appended is over.
LEMMA EndsOver ==
  ASSUME TypeInv, NEW e \in writing, Publish(e) \/ PublishFails(e)
  PROVE  /\ e.connection \in Connection /\ e.kind \in EventKind
         /\ Over(e.connection)' <=> Over(e.connection) \/ e.kind = "disconnected"
         /\ e.kind = "disconnected" => e.at = ended[e.connection]
         /\ \A d \in Connection \ {e.connection} : Over(d)' <=> Over(d)
<1> DEFINE c == e.connection
<1>1. /\ c \in Connection /\ e.kind \in EventKind
      /\ e.kind = "connected" => stage[c] = "announcing"
      /\ e.kind = "disconnected" => e.at = ended[c]
  BY DEF TypeInv, InFlight, Draft
<1>2. Resume(c, e.kind, TRUE) \/ Resume(c, e.kind, FALSE)
  BY DEF Publish, PublishFails
<1>3. stage \in [Connection -> Stage]
  BY DEF TypeInv, SocketsTyped
<1> HIDE DEF c
<1>4. /\ \A d \in Connection \ {c} : stage'[d] = stage[d]
      /\ e.kind \in {"seen", "response"} => stage' = stage
      /\ e.kind = "connected" => stage'[c] = "serving"
      /\ e.kind = "disconnected" => stage'[c] = "over"
  BY <1>1, <1>2, <1>3 DEF Resume
<1>5. Over(c)' <=> Over(c) \/ e.kind = "disconnected"
  BY <1>1, <1>4 DEF Over, EventKind
<1>6. \A d \in Connection \ {c} : Over(d)' <=> Over(d)
  BY <1>4 DEF Over
<1> QED
  BY <1>1, <1>5, <1>6 DEF c

\* Only the end of a connection is reported as its end.
LEMMA AliveStep == TypeInv /\ Alive /\ [Next]_vars => Alive'
<1> SUFFICES ASSUME TypeInv, Alive, [Next]_vars, NEW c \in Connection, ~Over(c)'
             PROVE  Unended(c)'
  BY DEF Alive
<1>0. SocketsTyped /\ SocketsTyped' /\ Located /\ InFlight
  BY TypeStep DEF TypeInv
<1>1. stream \in Seq(Event)
  BY DEF TypeInv, Timed
<1>2. ASSUME UNCHANGED <<stream, row>>, ~Over(c) PROVE Unended(c)'
  BY <1>2 DEF Alive, Unended
<1>3. ASSUME ~Over(c), UNCHANGED row, NEW e, stream' = Append(stream, e),
             e.connection = c => e.kind # "disconnected"
      PROVE  Unended(c)'
  <2>1. /\ Len(stream) \in Nat /\ Len(stream') = Len(stream) + 1
        /\ stream'[Len(stream) + 1] = e
        /\ \A i \in 1..Len(stream) : stream'[i] = stream[i]
    BY <1>1, <1>3, Appended
  <2> QED
    BY <1>3, <2>1 DEF Alive, Unended
<1>4. CASE Still
  BY <1>2, <1>4 DEF Still
<1>5. ASSUME NEW d \in Connection, NEW kind \in EventKind, Stamps(d, kind)
      PROVE  Unended(c)'
  BY <1>2, <1>5 DEF Stamps, Stamp
<1>6. ASSUME NEW e \in writing, Publish(e) \/ PublishFails(e), UNCHANGED row
      PROVE  Unended(c)'
  <2>1. ~Over(c) /\ (e.connection = c => e.kind # "disconnected")
    BY <1>6, EndsOver
  <2>2. UNCHANGED stream \/ stream' = Append(stream, e)
    BY <1>6 DEF Publish, PublishFails
  <2> QED
    BY <1>2, <1>3, <1>6, <2>1, <2>2
<1>7. ASSUME NEW n \in Node, Crash(n), UNCHANGED row PROVE Unended(c)'
  <2>1. ~Over(c) /\ UNCHANGED stream
    BY <1>7 DEF Over, Crash
  <2> QED
    BY <1>2, <1>7, <2>1
<1>8. CASE UNCHANGED stage /\ (Consume \/ LoseEvent)
  <2>1. stream # <<>> /\ stream' = Tail(stream) /\ Unended(c)
    BY <1>8 DEF Consume, LoseEvent, Over, Alive
  <2>2. /\ Head(stream) = stream[1] /\ Len(stream) \in Nat /\ Len(stream) >= 1
        /\ Len(stream') = Len(stream) - 1
        /\ \A i \in 1..Len(stream') : stream'[i] = stream[i + 1]
    BY <1>1, <2>1, Taken
  <2>3. \A i \in 1..Len(stream') : stream'[i].connection = c => stream'[i].kind # "disconnected"
    BY <2>1, <2>2 DEF Unended
  <2>4. Head(stream).connection = c => Head(stream).kind # "disconnected"
    BY <2>1, <2>2 DEF Unended
  <2>5. row'.connection = c => row'.connected
    <3>1. CASE row' = row
      BY <2>1, <3>1 DEF Unended
    <3>2. CASE Consume
      BY <2>4, <3>1, <3>2, Applied DEF TypeInv
    <3> QED
      BY <1>8, <3>1, <3>2 DEF LoseEvent
  <2> QED
    BY <2>3, <2>5 DEF Unended
<1> QED
  BY <1>0, <1>4, <1>5, <1>6, <1>7, <1>8, Moves

-----------------------------------------------------------------------------
\* Event i says that c ended.
Closing(c, i) ==
  stream[i].connection = c /\ stream[i].kind = "disconnected" /\ stream[i].at = ended[c]

\* The row shows the end of c, or an event of it stamped after its end.
Closed(c) == row.connection = c /\ (~row.connected \/ row.last > ended[c])

\* The row shows a newer connection or the end of c, or will once it is read.
EndShown(c) == row.connection > c \/ Closed(c) \/ \E i \in 1..Len(stream) : Closing(c, i)

\* The row shows c or a newer connection, or will once everything is written
\* and read.
Announced(c) ==
  \/ row.connection >= c
  \/ \E e \in writing : e.connection = c
  \/ \E i \in 1..Len(stream) : stream[i].connection = c

\* What a connection published, and no fault swallowed, reaches the row.
Kept(c) == IF Over(c) THEN EndShown(c) ELSE stamped[c] > 0 => Announced(c)
Told == \A c \in Connection \ unheard : Kept(c)

\* Events behind the others change nothing of what they will show.
LEMMA KeptBehind ==
  ASSUME NEW c \in Connection, UNCHANGED row, Len(stream) \in Nat,
         Len(stream') \in Nat, Len(stream') >= Len(stream),
         \A i \in 1..Len(stream) : stream'[i] = stream[i]
  PROVE  /\ EndShown(c) /\ ended'[c] = ended[c] => EndShown(c)'
         /\ row.connection >= c => row'.connection >= c
         /\ \A i \in 1..Len(stream) : i \in 1..Len(stream') /\ stream'[i] = stream[i]
<1>1. \A i \in 1..Len(stream) : i \in 1..Len(stream')
  OBVIOUS
<1>2. ASSUME NEW i \in 1..Len(stream), Closing(c, i), ended'[c] = ended[c] PROVE Closing(c, i)'
  BY <1>1, <1>2 DEF Closing
<1>3. EndShown(c) /\ ended'[c] = ended[c] => EndShown(c)'
  BY <1>1, <1>2 DEF EndShown, Closed
<1> QED
  BY <1>1, <1>3

\* Reading an event brings the row closer to what the stream will show.
LEMMA KeptRead ==
  ASSUME Timed, NEW c \in Connection, stream # <<>>, stream' = Tail(stream),
         Consume \/ (UNCHANGED row /\ Head(stream).connection # c),
         UNCHANGED <<ended, writing>>, ended[c] \in Nat
  PROVE  (EndShown(c) => EndShown(c)') /\ (Announced(c) => Announced(c)')
<1> DEFINE e == Head(stream)
<1>1. /\ e \in Event /\ e = stream[1]
      /\ Len(stream) \in Nat /\ Len(stream) >= 1 /\ Len(stream') = Len(stream) - 1
      /\ \A i \in 1..Len(stream') : stream'[i] = stream[i + 1]
  BY Taken DEF Timed
<1>2. /\ e.connection \in Nat /\ e.at \in Nat /\ c \in Nat
      /\ row.connection \in Nat /\ row.last \in Nat
  BY <1>1, Numbers, Bounds DEF Timed
<1> HIDE DEF e
<1>3. \/ row' = row
      \/ /\ row'.connection = e.connection /\ row'.last = e.at
         /\ row'.connected <=> e.kind # "disconnected"
         /\ row.connection <= e.connection
         /\ row.connection = e.connection => row.last <= e.at
  BY Applied DEF e
<1>4. row'.connection \in Nat /\ row'.connection >= row.connection
  BY <1>2, <1>3
<1>5. CASE row.connection > c
  BY <1>2, <1>4, <1>5 DEF EndShown, Announced
<1>6. ASSUME Closed(c) PROVE EndShown(c)'
  <2>1. CASE row' = row
    BY <1>6, <2>1 DEF Closed, EndShown
  <2>2. CASE row' # row
    <3>1. Consume /\ ~Ignored(e)
      BY <2>2 DEF Consume, Observe, e
    <3>2. CASE row'.connection = c
      <4>1. e.connection = c /\ row.last <= e.at /\ row'.last = e.at
        BY <1>3, <1>6, <2>2, <3>2 DEF Closed
      <4>2. CASE ~row.connected
        BY <1>3, <1>6, <2>2, <3>1, <3>2, <4>1, <4>2 DEF Ignored, Closed, EndShown
      <4>3. CASE row.last > ended[c]
        <5>1. row'.last > ended'[c]
          BY <1>2, <4>1, <4>3
        <5> QED
          BY <3>2, <5>1 DEF Closed, EndShown
      <4> QED
        BY <1>6, <4>2, <4>3 DEF Closed
    <3>3. CASE row'.connection # c
      <4>1. row'.connection > c
        BY <1>2, <1>4, <1>6, <3>3 DEF Closed
      <4> QED
        BY <4>1 DEF EndShown
    <3> QED
      BY <3>2, <3>3
  <2> QED
    BY <2>1, <2>2
<1>7. ASSUME NEW i \in 1..Len(stream), Closing(c, i)
      PROVE  EndShown(c)'
  <2>1. CASE i = 1
    <3>1. e.connection = c /\ e.kind = "disconnected" /\ e.at = ended[c]
      BY <1>1, <1>7, <2>1 DEF Closing
    <3>2. Consume
      BY <3>1 DEF e
    <3>3. CASE Ignored(e)
      <4>1. row' = row /\ (row.connection > c \/ (row.connection = c /\ row.last > ended[c]))
        BY <1>2, <3>1, <3>2, <3>3 DEF Ignored, Consume, Observe, e
      <4> QED
        BY <4>1 DEF EndShown, Closed
    <3>4. CASE ~Ignored(e)
      <4>1. row'.connection = c /\ ~row'.connected
        BY <3>1, <3>2, <3>4 DEF Consume, Observe, e
      <4> QED
        BY <4>1 DEF EndShown, Closed
    <3> QED
      BY <3>3, <3>4
  <2>2. CASE i # 1
    <3>1. i - 1 \in 1..Len(stream') /\ stream'[i - 1] = stream[i]
      BY <1>1, <1>7, <2>2
    <3>2. Closing(c, i - 1)'
      BY <1>7, <3>1 DEF Closing
    <3> QED
      BY <3>1, <3>2 DEF EndShown
  <2> QED
    BY <2>1, <2>2
<1>8. EndShown(c) => EndShown(c)'
  BY <1>5, <1>6, <1>7 DEF EndShown
<1>9. ASSUME NEW i \in 1..Len(stream), stream[i].connection = c
      PROVE  Announced(c)'
  <2>1. CASE i = 1
    <3>1. e.connection = c /\ Consume
      BY <1>1, <1>9, <2>1 DEF e
    <3>2. row'.connection >= c
      BY <1>2, <1>4, <3>1 DEF Consume, Observe, Ignored, e
    <3> QED
      BY <3>2 DEF Announced
  <2>2. CASE i # 1
    <3>1. i - 1 \in 1..Len(stream') /\ stream'[i - 1] = stream[i]
      BY <1>1, <1>9, <2>2
    <3> QED
      BY <1>9, <3>1 DEF Announced
  <2> QED
    BY <2>1, <2>2
<1>10. ASSUME Announced(c) PROVE Announced(c)'
  <2>1. CASE row.connection >= c
    BY <1>2, <1>4, <2>1 DEF Announced
  <2> QED
    BY <1>9, <1>10, <2>1 DEF Announced
<1> QED
  BY <1>8, <1>10

\* Whatever happens to a connection that is not unheard, its row or the stream
\* keeps what there is to tell of it.
LEMMA ToldStep == TypeInv /\ Told /\ [Next]_vars => Told'
<1> SUFFICES ASSUME TypeInv, Told, [Next]_vars, NEW c \in Connection, c \notin unheard'
             PROVE  Kept(c)'
  BY DEF Told
<1>0. SocketsTyped /\ SocketsTyped' /\ Located /\ InFlight
  BY TypeStep DEF TypeInv
<1>1. stream \in Seq(Event) /\ Len(stream) \in Nat /\ stamped \in [Connection -> Nat]
  BY DEF TypeInv, InFlight, Timed
<1>2. unheard \subseteq unheard'
  BY <1>0, Moves
  DEF Still, Stamps, Publish, PublishFails, Crash, Consume, LoseEvent
<1>3. Kept(c)
  BY <1>2 DEF Told
<1>4. ASSUME Over(c)' <=> Over(c), stamped'[c] = stamped[c],
             EndShown(c) => EndShown(c)', Announced(c) => Announced(c)'
      PROVE  Kept(c)'
  BY <1>3, <1>4 DEF Kept
<1>5. CASE Quiet /\ Still
  BY <1>3, <1>5 DEF Quiet, Still, Kept, EndShown, Closed, Closing, Announced
<1>6. ASSUME NEW d \in Connection, NEW kind \in EventKind, Stamps(d, kind)
      PROVE  Kept(c)'
  <2> DEFINE new == [connection |-> d, kind |-> kind, at |-> stamped[d] + 1]
  <2>1. /\ writing' = writing \cup {new} /\ new.connection = d /\ UNCHANGED <<stream, row>>
        /\ \A x \in Connection \ {d} : stamped'[x] = stamped[x]
    BY <1>0, <1>6, StampedEvent DEF Stamps
  <2> HIDE DEF new
  <2>2. Over(c)' <=> Over(c)
    BY <1>6 DEF Stamps
  <2>3. CASE Over(c)
    <3>1. ended'[c] = ended[c]
      BY <1>0, <1>6, <2>3 DEF Stamps, InFlight
    <3> QED
      BY <1>3, <2>1, <2>2, <2>3, <3>1 DEF Kept, EndShown, Closed, Closing
  <2>4. CASE ~Over(c) /\ d = c
    BY <2>1, <2>2, <2>4 DEF Kept, Announced
  <2>5. CASE ~Over(c) /\ d # c
    BY <1>3, <2>1, <2>2, <2>5 DEF Kept, Announced
  <2> QED
    BY <2>3, <2>4, <2>5
<1>7. ASSUME Quiet, UNCHANGED row, NEW e \in writing, Publish(e) \/ PublishFails(e)
      PROVE  Kept(c)'
  <2>1. /\ writing' = writing \ {e} /\ UNCHANGED <<stamped, ended>>
        /\ \/ stream' = Append(stream, e)
           \/ UNCHANGED stream /\ unheard' = unheard \cup {e.connection}
    BY <1>7 DEF Publish, PublishFails
  <2>2. /\ Over(e.connection)' <=> Over(e.connection) \/ e.kind = "disconnected"
        /\ e.kind = "disconnected" => e.at = ended[e.connection]
        /\ \A d \in Connection \ {e.connection} : Over(d)' <=> Over(d)
    BY <1>7, EndsOver
  <2>3. CASE stream' = Append(stream, e)
    <3>1. /\ Len(stream') = Len(stream) + 1 /\ stream'[Len(stream) + 1] = e
          /\ \A i \in 1..Len(stream) : stream'[i] = stream[i]
      BY <1>1, <2>3, Appended
    <3>2. /\ EndShown(c) => EndShown(c)'
          /\ row.connection >= c => row'.connection >= c
          /\ \A i \in 1..Len(stream) : i \in 1..Len(stream') /\ stream'[i] = stream[i]
      BY <1>1, <1>7, <2>1, <3>1, KeptBehind
    <3>3. Len(stream) + 1 \in 1..Len(stream')
      BY <1>1, <3>1
    <3>4. Announced(c) => Announced(c)'
      BY <2>1, <3>1, <3>2, <3>3 DEF Announced
    <3>5. CASE Over(c)' <=> Over(c)
      BY <1>4, <2>1, <3>2, <3>4, <3>5
    <3>6. CASE ~(Over(c)' <=> Over(c))
      <4>1. e.connection = c /\ e.kind = "disconnected" /\ e.at = ended[c] /\ Over(c)'
        BY <2>2, <3>6
      <4>2. PICK i \in 1..Len(stream') : stream'[i] = e
        BY <3>1, <3>3
      <4>3. Closing(c, i)'
        BY <2>1, <4>1, <4>2 DEF Closing
      <4> QED
        BY <4>1, <4>3 DEF Kept, EndShown
    <3> QED
      BY <3>5, <3>6
  <2>4. CASE UNCHANGED stream /\ unheard' = unheard \cup {e.connection}
    <3>1. e.connection # c
      BY <2>4
    <3>2. Over(c)' <=> Over(c)
      BY <2>2, <3>1
    <3> QED
      BY <1>3, <1>7, <2>1, <2>4, <3>1, <3>2 DEF Kept, EndShown, Closed, Closing, Announced
  <2> QED
    BY <2>1, <2>3, <2>4
<1>8. ASSUME NEW n \in Node, Crash(n), UNCHANGED row PROVE Kept(c)'
  <2>1. ~(node[c] = n /\ ~Over(c))
    BY <1>8 DEF Crash, Over
  <2>2. (Over(c)' <=> Over(c)) /\ UNCHANGED <<stamped, ended, stream>>
    BY <1>8, <2>1 DEF Crash, Over
  <2>3. CASE Over(c)
    BY <1>3, <1>8, <2>2, <2>3 DEF Kept, EndShown, Closed, Closing
  <2>4. CASE ~Over(c)
    <3>1. \A e \in writing : e.connection = c => e \in writing'
      BY <1>8, <2>1, <2>4 DEF Crash
    <3> QED
      BY <1>3, <1>8, <2>2, <2>4, <3>1 DEF Kept, Announced
  <2> QED
    BY <2>3, <2>4
<1>9. CASE Quiet /\ UNCHANGED stage /\ (Consume \/ LoseEvent)
  <2>1. /\ stream # <<>> /\ stream' = Tail(stream) /\ UNCHANGED <<stamped, writing, ended>>
        /\ Consume \/ UNCHANGED row
    BY <1>9 DEF Consume, LoseEvent
  <2>2. Consume \/ (UNCHANGED row /\ Head(stream).connection # c)
    BY <1>9, <2>1 DEF LoseEvent
  <2>3. ended[c] \in Nat
    BY <1>0 DEF InFlight
  <2>4. (EndShown(c) => EndShown(c)') /\ (Announced(c) => Announced(c)')
    BY <2>1, <2>2, <2>3, KeptRead DEF TypeInv
  <2> QED
    BY <1>4, <1>9, <2>1, <2>4 DEF Over
<1> QED
  BY <1>0, <1>5, <1>6, <1>7, <1>8, <1>9, Moves

\* Once everything is written and read, and nothing was lost, a station is shown
\* by the newest connection heard of; the end of that connection is missed only
\* behind an event stamped after it.
THEOREM StationShownCorrect == Spec => []StationShown
<1>1. Init => Alive /\ Told
  BY Bounds DEF Init, GatewayInit, NoRow, Alive, Unended, Told, Kept, Over
<1>2. TypeInv /\ Alive /\ Told => StationShown
  <2> SUFFICES ASSUME TypeInv, Alive, Told, stream = <<>>, writing = {},
                      NEW c \in Connection, stamped[c] > 0, c \notin unheard,
                      \A d \in Connection : stamped[d] > 0 => d <= c
               PROVE  /\ row.connection = c
                      /\ ~row.connected => Over(c)
                      /\ row.connected => ~Over(c) \/ row.last > ended[c]
    BY DEF StationShown, Over
  <2>1. row.connection \in Connection \cup {Nobody} /\ row.connection \in Nat /\ c \in Nat
    <3>1. row \in Row
      BY DEF TypeInv, Timed
    <3>2. row.connection \in Connection \cup {Nobody}
      BY <3>1 DEF Row
    <3> QED
      BY <3>1, <3>2, Numbers, Bounds
  <2>2. Len(stream) = 0 /\ 1..Len(stream) = {}
    OBVIOUS
  <2>3. row.connection > c \/ row.connection = c
    <3>1. Kept(c)
      BY DEF Told
    <3> QED
      BY <2>1, <2>2, <3>1 DEF Kept, EndShown, Closed, Announced
  <2>4. row.connection <= c
    <3>1. row.connection # Nobody
      BY <2>1, <2>3, Bounds DEF Nobody, Connection
    <3>2. row.connection \in Connection /\ stamped[row.connection] > 0
      <4>1. row.connection \in Connection /\ stamped[row.connection] \in Nat
        BY <2>1, <3>1 DEF TypeInv, InFlight
      <4> QED
        BY <3>1, <4>1 DEF TypeInv, Timed
    <3> QED
      BY <3>2
  <2>5. row.connection = c
    BY <2>1, <2>3, <2>4
  <2>6. Over(c) => ~row.connected \/ row.last > ended[c]
    BY <2>1, <2>2, <2>5 DEF Told, Kept, EndShown, Closed
  <2>7. ~Over(c) => row.connected
    BY <2>5 DEF Alive, Unended
  <2> QED
    BY <2>5, <2>6, <2>7
<1> QED
  BY <1>1, <1>2, AlwaysTyped, AliveStep, ToldStep, PTL DEF Spec

-----------------------------------------------------------------------------
\* A connection that was seen to end never comes back: the event that shows the
\* station as connected again is of a newer one.
THEOREM EndIsFinalCorrect == Spec => EndIsFinal
<1>1. ASSUME TypeInv, [Next]_vars
      PROVE  [~row.connected /\ row'.connected => row'.connection > row.connection]_vars
  <2>1. ASSUME Consume, ~row.connected, row'.connected
        PROVE  row'.connection > row.connection
    <3> DEFINE e == Head(stream)
    <3>1. e \in Event /\ Timed
      BY <1>1, <2>1, Taken DEF Consume, TypeInv, Timed
    <3>2. e.connection \in Nat /\ row.connection \in Nat
      BY <3>1, Numbers DEF Timed
    <3>3. row' # row /\ ~Ignored(e)
      BY <2>1 DEF Consume, Observe
    <3>4. /\ row'.connection = e.connection /\ row.connection <= e.connection
          /\ row'.connected <=> e.kind # "disconnected"
      BY <2>1, <3>1, <3>3, Applied
    <3> QED
      BY <2>1, <3>2, <3>3, <3>4 DEF Ignored
  <2>2. CASE UNCHANGED row
    BY <2>2
  <2> QED
    BY <1>1, <2>1, <2>2 DEF Next, LoseEvent, vars
<1> QED
  BY <1>1, AlwaysTyped, PTL DEF Spec, EndIsFinal
=============================================================================
