---------------------------- MODULE ChargingProofs ----------------------------
(***************************************************************************)
(* Theorems about Charging, for any requests, transactions, evidence,      *)
(* reviewers, totals and bounds.                                           *)
(***************************************************************************)
EXTENDS Charging, TLAPS

(* The assumptions on constants.                                           *)
LEMMA Constants ==
  /\ CustomerRequest \subseteq Request
  /\ Request \cap Tx = {}
  /\ None \notin Request \cup Tx \cup SessionState \cup CommandState
  /\ "start" \notin StopKey
  /\ Event \subseteq [kind : EvidenceKind, tx : Tx, copy : Nat]
  /\ Adjusted \notin Event
  /\ Total \subseteq Nat /\ None \notin Nat
  /\ MaxJobs \in Nat \ {0} /\ MaxVersion \in Nat \ {0}
  BY ConstantsOK

(* A command is the start of a request or a stop of a session, never both. *)
LEMMA CommandParts ==
  /\ Request \subseteq Session /\ Tx \subseteq Session
  /\ StartCommand \subseteq Command /\ StopCommand \subseteq Command
  /\ StartCommand \cap StopCommand = {}
  /\ \A r \in Request : <<r, "start">> \in StartCommand
  /\ \A c \in StartCommand : c[1] \in Request /\ c = <<c[1], "start">>
  /\ \A c \in StopCommand : c[1] \in Session
  /\ \A s \in Session, k \in StopKey : <<s, k>> \in StopCommand
  /\ \A c \in Command : c[1] \in Session
  /\ \A c \in Command : c \in StartCommand \/ c \in StopCommand
  BY Constants DEF Session, Command, StartCommand, StopCommand

(* A start never becomes the command of another request.                   *)
LEMMA StartUnique ==
  ASSUME NEW r, NEW other
  PROVE  <<r, "start">> = <<other, "start">> => r = other
  OBVIOUS

-----------------------------------------------------------------------------
(* Types.  Jobs keep their type because the messages of one command never  *)
(* exceed the bound, and a command that does not exist has none.           *)

JobsBounded ==
  \A c \in Command :
    /\ JobsOf(c) <= MaxJobs
    /\ cmd[c] = None => JobsOf(c) = 0

SessionsTyped ==
  /\ state \in [Session -> SessionState \cup {None}]
  /\ tx \in [Session -> Tx \cup {None}]
  /\ flagged \subseteq Session /\ unconfirmed \subseteq Request
  /\ measured \in [Session -> SUBSET (Event \cup {Adjusted})]

CommandsTyped ==
  /\ cmd \in [Command -> CommandState \cup {None}]
  /\ sent \subseteq Command /\ due \subseteq Command
  /\ resume \in [StopCommand -> Stoppable \cup {None}]

JobsTyped == jobs \in [Command -> [waiting : Nat, calling : Nat, applying : Nat]]

RowsTyped ==
  /\ reserved \subseteq Session
  /\ connector \in Availability /\ preparing \in BOOLEAN
  /\ records \in [Session -> Seq(Record)]
  /\ reviewing \in [Reviewer -> [session : Session, decision : Decision]
                                \cup {None}]
  /\ inbox \in [Event -> {"pending", "processed", "quarantined"}]
  /\ phase \in [Tx -> {"unused", "running", "over"}]
  /\ known \in [Tx -> SUBSET Request]

Typed == SessionsTyped /\ CommandsTyped /\ JobsTyped /\ RowsTyped

(* With the bound on messages the parts are the type invariant.            *)
LEMMA TypedSuffices == Typed /\ JobsBounded => TypeOK
<1> SUFFICES ASSUME Typed, JobsBounded PROVE TypeOK
  OBVIOUS
<1>1. ASSUME NEW c \in Command PROVE jobs[c] \in Jobs
  <2>1. jobs[c] \in [waiting : Nat, calling : Nat, applying : Nat]
    BY DEF Typed, JobsTyped
  <2>2. jobs[c].waiting + jobs[c].calling + jobs[c].applying <= MaxJobs
    BY DEF JobsBounded, JobsOf
  <2>3. MaxJobs \in Nat
    BY Constants
  <2> QED
    BY <2>1, <2>2, <2>3 DEF Jobs
<1>2. jobs \in [Command -> Jobs]
  BY <1>1 DEF Typed, JobsTyped
<1> QED
  BY <1>2 DEF TypeOK, Typed, SessionsTyped, CommandsTyped, RowsTyped, Stoppable,
              SessionState

(* The initial rows.                                                       *)
LEMMA TypedInit == Init => Typed /\ JobsBounded
<1> SUFFICES ASSUME Init PROVE Typed /\ JobsBounded
  OBVIOUS
<1>1. SessionsTyped /\ CommandsTyped
  BY DEF Init, SessionsTyped, CommandsTyped
<1>2. JobsTyped
  BY DEF Init, JobsTyped
<1>3. RowsTyped
  <2>1. <<>> \in Seq(Record)
    OBVIOUS
  <2> QED
    BY <2>1 DEF Init, RowsTyped, Availability
<1>4. JobsBounded
  BY Constants DEF Init, JobsBounded, JobsOf
<1> QED
  BY <1>1, <1>2, <1>3, <1>4 DEF Typed

(* The outcome of a command leaves the rows of sessions well typed.        *)
LEMMA OutcomeTyped ==
  ASSUME SessionsTyped, CommandsTyped, NEW c \in Command, NEW outcome,
         ApplyOutcome(c, outcome)
  PROVE  SessionsTyped'
<1>1. c[1] \in Session /\ (c \in StartCommand => c[1] \in Request)
  BY CommandParts
<1>2. "failed" \in SessionState
  BY DEF SessionState
<1>3. state' \in [Session -> SessionState \cup {None}]
  <2>1. CASE FailsSession(c, outcome) /\ Become(c[1], "failed")
    BY <2>1, <1>1, <1>2 DEF SessionsTyped, Become
  <2>2. CASE ResumesSession(c, outcome) /\ Become(c[1], resume[c])
    BY <2>2, <1>1 DEF SessionsTyped, CommandsTyped, Become, ResumesSession,
               Stoppable, SessionState
  <2>3. CASE UNCHANGED state
    BY <2>3 DEF SessionsTyped
  <2> QED
    BY <2>1, <2>2, <2>3 DEF ApplyOutcome
<1>4. unconfirmed' \subseteq Request
  BY <1>1, Constants DEF ApplyOutcome, LeavesUnconfirmed, SessionsTyped
<1> QED
  BY <1>3, <1>4 DEF SessionsTyped, ApplyOutcome

(* Cancelling a session keeps the rows of sessions well typed.             *)
LEMMA CancelTyped ==
  ASSUME SessionsTyped, NEW s \in Session, CancelSession(s)
  PROVE  SessionsTyped'
  BY DEF SessionsTyped, CancelSession, Become, SessionState

(* Evidence leaves measurements and flags well typed.                      *)
LEMMA MeasureTyped ==
  ASSUME SessionsTyped, NEW s \in Session, NEW e \in Event, MayMeasure(s, e)
  PROVE  /\ flagged' \subseteq Session
         /\ measured' \in [Session -> SUBSET (Event \cup {Adjusted})]
<1>1. CASE Measures(s, e)
  BY <1>1 DEF SessionsTyped, Measures, MayFlag
<1>2. CASE ~Measures(s, e)
  BY <1>2 DEF SessionsTyped, MayMeasure, MayFlag
<1> QED
  BY <1>1, <1>2

(* The sessions evidence of a transaction may be taken for.                *)
LEMMA Candidates ==
  ASSUME NEW t \in Tx
  PROVE  /\ SessionsOf(t) \subseteq Session
         /\ PendingFor(t) \subseteq Request
         /\ SessionForStart(t) \subseteq Session
         /\ FindOrReconstruct(t) \subseteq Session
<1>1. Request \subseteq Session /\ Tx \subseteq Session
  BY CommandParts
<1>2. SessionsOf(t) \subseteq Session /\ PendingFor(t) \subseteq Request
  BY DEF SessionsOf, PendingFor
<1> QED
  BY <1>1, <1>2 DEF SessionForStart, FindOrReconstruct

(* The fields of a piece of evidence.                                      *)
LEMMA EventParts == \A e \in Event : e.tx \in Tx
  BY Constants

(* Every step keeps the rows of sessions well typed.                       *)
LEMMA SessionsTypedStep ==
  ASSUME SessionsTyped, CommandsTyped, [Next]_vars
  PROVE  SessionsTyped'
<1> USE DEF Settles
<1>1. ASSUME NEW r \in Request, RemoteStart(r) PROVE SessionsTyped'
  BY <1>1, CommandParts DEF RemoteStart, SessionsTyped, Become, SessionState
<1>2. ASSUME NEW r \in Request, WithdrawStart(r) PROVE SessionsTyped'
  BY <1>2, CommandParts, CancelTyped DEF WithdrawStart
<1>3. ASSUME NEW c \in StopCommand, RemoteStop(c) PROVE SessionsTyped'
  BY <1>3, CommandParts DEF RemoteStop, SessionsTyped, Become, SessionState
<1>4. ASSUME NEW r \in Request, ExpireSession(r) PROVE SessionsTyped'
  BY <1>4, CommandParts DEF ExpireSession, SessionsTyped, Become, SessionState
<1>5. ASSUME NEW s \in Session, OperatorCancel(s) PROVE SessionsTyped'
  BY <1>5, CancelTyped DEF OperatorCancel
<1>6. ASSUME NEW c \in Command, ExpireCommand(c) PROVE SessionsTyped'
  BY <1>6, OutcomeTyped DEF ExpireCommand
<1>7. ASSUME NEW c \in Command, JobApply(c) PROVE SessionsTyped'
  <2>1. CASE ApplyOutcome(c, cmd[c])
    BY <2>1, OutcomeTyped
  <2>2. CASE UNCHANGED sessionVars
    BY <2>2 DEF sessionVars, SessionsTyped
  <2> QED
    BY <1>7, <2>1, <2>2 DEF JobApply
<1>8. ASSUME NEW c \in Command, NEW outcome \in GatewayOutcome,
             JobOutcome(c, outcome)
      PROVE  SessionsTyped'
  <2>1. CASE ApplyOutcome(c, outcome)
    BY <2>1, OutcomeTyped
  <2>2. CASE ApplyOutcome(c, "delivery_unknown")
    BY <2>2, OutcomeTyped
  <2>3. CASE UNCHANGED sessionVars
    BY <2>3 DEF sessionVars, SessionsTyped
  <2> QED
    BY <1>8, <2>1, <2>2, <2>3 DEF JobOutcome
<1>9. ASSUME NEW e \in Event, StartObserved(e) PROVE SessionsTyped'
  <2>1. CASE UNCHANGED sessionVars
    BY <2>1 DEF sessionVars, SessionsTyped
  <2>2. ASSUME NEW s \in SessionForStart(e.tx), Become(s, "charging"),
               tx' = [tx EXCEPT ![s] = e.tx], MayMeasure(s, e),
               UNCHANGED unconfirmed
        PROVE  SessionsTyped'
    <3>1. s \in Session /\ e.tx \in Tx
      BY Candidates, EventParts
    <3>2. state' \in [Session -> SessionState \cup {None}]
      BY <2>2, <3>1 DEF SessionsTyped, Become, SessionState
    <3> QED
      BY <2>2, <3>1, <3>2, MeasureTyped DEF SessionsTyped
  <2> QED
    BY <1>9, <2>1, <2>2 DEF StartObserved, Quarantined
<1>10. ASSUME NEW e \in Event, TransactionUpdated(e) PROVE SessionsTyped'
  <2>1. CASE UNCHANGED sessionVars
    BY <2>1 DEF sessionVars, SessionsTyped
  <2>2. ASSUME NEW s \in FindOrReconstruct(e.tx), NEW target \in UpdateTarget(e),
               Become(s, IF SessionMay(StateOrNew(s), target)
                         THEN target ELSE state[s]),
               tx' = [tx EXCEPT ![s] = e.tx], MayMeasure(s, e),
               UNCHANGED unconfirmed
        PROVE  SessionsTyped'
    <3>1. s \in Session /\ e.tx \in Tx /\ target \in SessionState
      BY Candidates, EventParts DEF UpdateTarget, SessionState
    <3>2. state' \in [Session -> SessionState \cup {None}]
      BY <2>2, <3>1 DEF SessionsTyped, Become
    <3> QED
      BY <2>2, <3>1, <3>2, MeasureTyped DEF SessionsTyped
  <2> QED
    BY <1>10, <2>1, <2>2 DEF TransactionUpdated, Quarantined
<1>11. ASSUME NEW e \in Event, EndObserved(e) PROVE SessionsTyped'
  <2>1. CASE UNCHANGED sessionVars
    BY <2>1 DEF sessionVars, SessionsTyped
  <2>2. ASSUME NEW s \in SessionsOf(e.tx), Measures(s, e),
               UNCHANGED <<tx, unconfirmed>>,
               Become(s, "review_required") \/ Become(s, "completed")
        PROVE  SessionsTyped'
    <3>1. s \in Session
      BY Candidates, EventParts
    <3>2. state' \in [Session -> SessionState \cup {None}]
      BY <2>2, <3>1 DEF SessionsTyped, Become, SessionState
    <3>3. MayMeasure(s, e)
      BY <2>2 DEF MayMeasure
    <3> QED
      BY <2>2, <3>1, <3>2, <3>3, MeasureTyped DEF SessionsTyped
  <2> QED
    BY <1>11, <2>1, <2>2
    DEF EndObserved, Generate, Quarantined, ReviewRecord, FinalizeRecord
<1>12. ASSUME NEW e \in Event, MeterObserved(e) PROVE SessionsTyped'
  <2>1. CASE UNCHANGED sessionVars
    BY <2>1 DEF sessionVars, SessionsTyped
  <2>2. ASSUME NEW s \in MeterTarget(e), Measures(s, e),
               UNCHANGED <<state, tx, unconfirmed>>
        PROVE  SessionsTyped'
    <3>1. s \in Session
      BY Candidates, EventParts DEF MeterTarget
    <3>2. MayMeasure(s, e)
      BY <2>2 DEF MayMeasure
    <3> QED
      BY <2>2, <3>1, <3>2, MeasureTyped DEF SessionsTyped
  <2> QED
    BY <1>12, <2>1, <2>2 DEF MeterObserved, Quarantined
<1>13. ASSUME NEW e \in Event, ConsumerFails(e) PROVE SessionsTyped'
  BY <1>13 DEF ConsumerFails, Quarantined, sessionVars, SessionsTyped
<1>14. ASSUME NEW w \in Reviewer, NEW s \in Session, NEW decision \in Decision,
              NEW adjusts \in BOOLEAN, ResolveReview(w, s, decision, adjusts)
       PROVE  SessionsTyped'
  BY <1>14 DEF ResolveReview, SessionsTyped
<1>15. ASSUME NEW w \in Reviewer, GenerateReviewed(w) PROVE SessionsTyped'
  <2>1. CASE UNCHANGED state
    BY <1>15, <2>1 DEF GenerateReviewed, SessionsTyped
  <2>2. CASE Become(reviewing[w].session, "completed")
    BY <1>15, <2>2
    DEF GenerateReviewed, SessionsTyped, Become, SessionState
  <2> QED
    BY <1>15, <2>1, <2>2 DEF GenerateReviewed, FinalizeRecord
<1>16. ASSUME UNCHANGED sessionVars PROVE SessionsTyped'
  BY <1>16 DEF sessionVars, SessionsTyped
<1>17. ASSUME NEW c \in Command,
              RepeatRequest(c) \/ DeadlinePasses(c) \/ JobBegin(c) \/ WorkerDies(c)
       PROVE  UNCHANGED sessionVars
  BY <1>17 DEF RepeatRequest, DeadlinePasses, JobBegin, WorkerDies
<1>18. ASSUME NEW status, StatusReported(status) PROVE UNCHANGED sessionVars
  BY <1>18 DEF StatusReported
<1>19. ASSUME NEW w \in Reviewer, ReviewerDies(w) PROVE UNCHANGED sessionVars
  BY <1>19 DEF ReviewerDies
<1>20. ASSUME NEW t \in Tx, BeginTx(t) \/ EndTx(t) PROVE UNCHANGED sessionVars
  BY <1>20 DEF BeginTx, EndTx
<1>21. CASE UNCHANGED vars
  BY <1>21, <1>16 DEF vars
<1>22. CASE Progress
  BY <1>22, <1>4, <1>5, <1>6, <1>7, <1>8, <1>9, <1>10, <1>11, <1>12, <1>13,
     <1>14, <1>15, <1>16, <1>17, <1>19, <1>20 DEF Progress, Consume
<1> QED
  BY <1>1, <1>2, <1>3, <1>16, <1>18, <1>21, <1>22, Constants DEF Next

(* The steps that change commands and their jobs.                          *)
LEMMA CommandSteps ==
  ASSUME [Next]_vars
  PROVE  \/ UNCHANGED <<commandVars, due>>
         \/ \E r \in Request : RemoteStart(r) \/ WithdrawStart(r)
         \/ \E c \in StopCommand : RemoteStop(c)
         \/ \E c \in Command :
              \/ RepeatRequest(c) \/ DeadlinePasses(c) \/ ExpireCommand(c)
              \/ JobBegin(c) \/ JobApply(c) \/ WorkerDies(c)
              \/ \E outcome \in GatewayOutcome : JobOutcome(c, outcome)
<1>1. ASSUME NEW e \in Event, Consume(e) PROVE UNCHANGED <<commandVars, due>>
  BY <1>1 DEF Consume, StartObserved, TransactionUpdated, EndObserved,
              MeterObserved, ConsumerFails, Quarantined, Consumed
<1>2. ASSUME NEW r \in Request, ExpireSession(r)
      PROVE  UNCHANGED <<commandVars, due>>
  BY <1>2 DEF ExpireSession
<1>3. ASSUME NEW s \in Session, OperatorCancel(s)
      PROVE  UNCHANGED <<commandVars, due>>
  BY <1>3 DEF OperatorCancel
<1>4. ASSUME NEW w \in Reviewer,
             \/ \E s \in Session, decision \in Decision, adjusts \in BOOLEAN :
                  ResolveReview(w, s, decision, adjusts)
             \/ GenerateReviewed(w) \/ ReviewerDies(w)
      PROVE  UNCHANGED <<commandVars, due>>
  BY <1>4 DEF ResolveReview, GenerateReviewed, ReviewerDies
<1>5. ASSUME NEW t \in Tx, BeginTx(t) \/ EndTx(t)
      PROVE  UNCHANGED <<commandVars, due>>
  BY <1>5 DEF BeginTx, EndTx
<1>6. ASSUME NEW status, StatusReported(status)
      PROVE  UNCHANGED <<commandVars, due>>
  BY <1>6 DEF StatusReported
<1>7. CASE UNCHANGED vars
  BY <1>7 DEF vars
<1>8. CASE Progress
  BY <1>8, <1>1, <1>2, <1>3, <1>4, <1>5 DEF Progress
<1> QED
  BY <1>6, <1>7, <1>8, Constants DEF Next

(* Every step keeps the rows of commands well typed.                       *)
LEMMA CommandsTypedStep ==
  ASSUME SessionsTyped, CommandsTyped, [Next]_vars
  PROVE  CommandsTyped'
<1> USE DEF CommandState
<1>1. ASSUME NEW r \in Request, RemoteStart(r) \/ WithdrawStart(r)
      PROVE  CommandsTyped'
  BY <1>1, CommandParts DEF CommandsTyped, RemoteStart, WithdrawStart
<1>2. ASSUME NEW c \in StopCommand, RemoteStop(c) PROVE CommandsTyped'
  BY <1>2, CommandParts
  DEF CommandsTyped, SessionsTyped, RemoteStop, StoppableTransaction, Stoppable,
      SessionState
<1>3. ASSUME NEW c \in Command,
             \/ RepeatRequest(c) \/ DeadlinePasses(c) \/ JobApply(c)
             \/ WorkerDies(c)
      PROVE  CommandsTyped'
  BY <1>3 DEF CommandsTyped, RepeatRequest, DeadlinePasses, JobApply,
              WorkerDies, commandVars
<1>4. ASSUME NEW c \in Command, JobBegin(c) PROVE CommandsTyped'
  BY <1>4 DEF CommandsTyped, JobBegin
<1>5. ASSUME NEW c \in Command, ExpireCommand(c) PROVE CommandsTyped'
  BY <1>5 DEF CommandsTyped, ExpireCommand, Settles, ExpiredAs
<1>6. ASSUME NEW c \in Command, NEW outcome \in GatewayOutcome,
             JobOutcome(c, outcome)
      PROVE  CommandsTyped'
  BY <1>6 DEF CommandsTyped, JobOutcome, Settles, GatewayOutcome
<1>7. CASE UNCHANGED <<commandVars, due>>
  BY <1>7 DEF commandVars, CommandsTyped
<1> QED
  BY <1>1, <1>2, <1>3, <1>4, <1>5, <1>6, <1>7, CommandSteps

(* What becomes of the jobs of a command: one more, one less, one on to    *)
(* its next part.                                                          *)
JobsMove(c) ==
  \/ /\ jobs' = Enqueue(c)
     /\ JobsOf(c) < MaxJobs
     /\ cmd'[c] # None
  \/ \E p \in {"waiting", "calling", "applying"} :
       /\ jobs[c][p] > 0
       /\ jobs' = [jobs EXCEPT ![c][p] = @ - 1]
  \/ \E p \in {"calling", "applying"} :
       /\ jobs[c].waiting > 0
       /\ jobs' = [jobs EXCEPT ![c].waiting = @ - 1, ![c][p] = @ + 1]

JobRow == [waiting : Nat, calling : Nat, applying : Nat]

(* How a command stands when it has jobs in each of their parts.           *)
CommandRows ==
  /\ \A c \in Command :
       /\ cmd[c] \in {None, "requested"} => c \notin sent /\ jobs[c].calling = 0
       /\ jobs[c].applying > 0 => cmd[c] \in CommandTerminal
  /\ \A r \in Request : cmd[<<r, "start">>] # None => Exists(r)

(* A step moves at most one job.                                           *)
LEMMA JobsStep ==
  ASSUME Typed, JobsBounded, CommandRows, [Next]_vars
  PROVE  UNCHANGED jobs \/ \E c \in Command : JobsMove(c)
<1>0. None # "requested"
  BY Constants DEF CommandState
<1>1. ASSUME NEW c \in Command, cmd[c] = None PROVE JobsOf(c) < MaxJobs
  BY <1>1, Constants DEF JobsBounded
<1>2. ASSUME NEW r \in Request, RemoteStart(r) PROVE JobsMove(<<r, "start">>)
  <2>1. cmd[<<r, "start">>] = None /\ <<r, "start">> \in Command
    BY <1>2, CommandParts DEF RemoteStart, CommandRows
  <2>2. cmd'[<<r, "start">>] = "requested"
    BY <1>2, <2>1 DEF RemoteStart, Typed, CommandsTyped
  <2> QED
    BY <1>0, <1>1, <1>2, <2>1, <2>2 DEF RemoteStart, JobsMove
<1>3. ASSUME NEW c \in StopCommand, RemoteStop(c) PROVE JobsMove(c)
  <2>1. c \in Command /\ cmd[c] = None
    BY <1>3, CommandParts DEF RemoteStop
  <2>2. cmd'[c] = "requested"
    BY <1>3, <2>1 DEF RemoteStop, Typed, CommandsTyped
  <2> QED
    BY <1>0, <1>1, <1>3, <2>1, <2>2 DEF RemoteStop, JobsMove
<1>4. ASSUME NEW c \in Command, RepeatRequest(c) PROVE JobsMove(c)
  BY <1>4 DEF RepeatRequest, JobsMove
<1>5. ASSUME NEW c \in Command,
             \/ JobBegin(c) \/ JobApply(c) \/ WorkerDies(c)
             \/ \E outcome \in GatewayOutcome : JobOutcome(c, outcome)
      PROVE  JobsMove(c)
  BY <1>5 DEF JobBegin, JobApply, WorkerDies, JobOutcome, JobsMove
<1>6. ASSUME NEW r \in Request, WithdrawStart(r) PROVE UNCHANGED jobs
  BY <1>6 DEF WithdrawStart
<1>7. ASSUME NEW c \in Command, DeadlinePasses(c) \/ ExpireCommand(c)
      PROVE  UNCHANGED jobs
  BY <1>7 DEF DeadlinePasses, ExpireCommand, commandVars
<1> QED
  BY <1>2, <1>3, <1>4, <1>5, <1>6, <1>7, CommandSteps, CommandParts
  DEF commandVars

(* Moving a job keeps jobs counted, and leaves those of other commands.    *)
LEMMA JobsMoved ==
  ASSUME JobsTyped, NEW c \in Command, JobsMove(c), JobsOf(c) <= MaxJobs
  PROVE  /\ JobsTyped'
         /\ JobsOf(c)' <= MaxJobs
         /\ \A d \in Command \ {c} : jobs'[d] = jobs[d]
<1> DEFINE row == jobs[c]
<1>1. row \in JobRow /\ MaxJobs \in Nat
  BY Constants DEF JobsTyped, JobRow
<1>2. \E next \in JobRow : /\ jobs' = [jobs EXCEPT ![c] = next]
                          /\ next.waiting + next.calling + next.applying <= MaxJobs
  <2>1. CASE JobsOf(c) < MaxJobs /\ jobs' = Enqueue(c)
    <3> DEFINE next == [row EXCEPT !.waiting = @ + 1]
    <3>1. next \in JobRow /\ next.waiting + next.calling + next.applying <= MaxJobs
      BY <2>1, <1>1 DEF JobRow, JobsOf
    <3>2. jobs' = [jobs EXCEPT ![c] = next]
      BY <2>1 DEF Enqueue
    <3> QED
      BY <3>1, <3>2
  <2>2. ASSUME NEW p \in {"waiting", "calling", "applying"}, row[p] > 0,
               jobs' = [jobs EXCEPT ![c][p] = @ - 1]
        PROVE  \E next \in JobRow :
                 /\ jobs' = [jobs EXCEPT ![c] = next]
                 /\ next.waiting + next.calling + next.applying <= MaxJobs
    <3> DEFINE next == [row EXCEPT ![p] = @ - 1]
    <3>1. next \in JobRow /\ next.waiting + next.calling + next.applying <= MaxJobs
      BY <2>2, <1>1 DEF JobRow, JobsOf
    <3>2. jobs' = [jobs EXCEPT ![c] = next]
      BY <2>2
    <3> QED
      BY <3>1, <3>2
  <2>3. CASE /\ row.waiting > 0
               /\ jobs' = [jobs EXCEPT ![c].waiting = @ - 1, ![c].calling = @ + 1]
    <3> DEFINE next == [waiting |-> row.waiting - 1, calling |-> row.calling + 1,
                        applying |-> row.applying]
    <3>1. next \in JobRow /\ next.waiting + next.calling + next.applying <= MaxJobs
      BY <2>3, <1>1 DEF JobRow, JobsOf
    <3>2. jobs' = [jobs EXCEPT ![c] = next]
      BY <2>3, <1>1 DEF JobsTyped, JobRow
    <3> QED
      BY <3>1, <3>2
  <2>4. CASE /\ row.waiting > 0
               /\ jobs' = [jobs EXCEPT ![c].waiting = @ - 1, ![c].applying = @ + 1]
    <3> DEFINE next == [waiting |-> row.waiting - 1, applying |-> row.applying + 1,
                        calling |-> row.calling]
    <3>1. next \in JobRow /\ next.waiting + next.calling + next.applying <= MaxJobs
      BY <2>4, <1>1 DEF JobRow, JobsOf
    <3>2. jobs' = [jobs EXCEPT ![c] = next]
      BY <2>4, <1>1 DEF JobsTyped, JobRow
    <3> QED
      BY <3>1, <3>2
  <2> QED
    BY <2>1, <2>2, <2>3, <2>4 DEF JobsMove
<1>3. PICK next \in JobRow : /\ jobs' = [jobs EXCEPT ![c] = next]
                            /\ next.waiting + next.calling + next.applying <= MaxJobs
  BY <1>2
<1>4. jobs'[c] = next
  BY <1>3 DEF JobsTyped
<1> QED
  BY <1>3, <1>4 DEF JobsTyped, JobsOf, JobRow

-----------------------------------------------------------------------------
(* Sessions.  Whatever commands, jobs, evidence and reviews do, sessions    *)
(* change only as ConnectorSessions allows.                                *)

(* From which states the machine admits the transitions the code makes.    *)
LEMMA Transitions ==
  /\ \A from \in SessionState :
       /\ SessionMay(from, "failed") => from \in {"authorizing", "starting", "failed"}
       /\ SessionMay(from, "cancelled")
            => from \in {"requested", "authorizing", "authorized", "starting",
                        "cancelled"}
       /\ \A to \in {"charging", "suspended_by_ev", "suspended_by_evse"} :
            SessionMay(from, to) => from \in PhysicallyActive \cup {"starting"}
       /\ SessionMay(from, "finalizing")
            => from \in PhysicallyActive \cup {"starting", "finalizing",
                                              "review_required"}
  /\ \A to \in Stoppable : SessionMay("stopping", to) => to \in PhysicallyActive
  BY DEF SessionState, SessionMay, SessionNext, PhysicallyActive, Stoppable

(* Between transactions no session is in a state the code only passes.     *)
Passing == {"requested", "authorizing", "authorized", "finalizing"}

SessionRows ==
  /\ \A s \in Session : state[s] \notin Passing
  /\ StartedIffPhysical
  /\ OneSessionPerTx
  /\ \A t \in Tx : Exists(t) => tx[t] = t
  /\ ReservedIffPending

(* Rows ConnectorSessions allows stay consistent with each other.          *)
LEMMA SessionRowsStep ==
  ASSUME SessionsTyped, SessionRows, [Sessions!Next]_<<state, tx, reserved>>
  PROVE  SessionRows'
<1> USE DEF Sessions!Session, Sessions!Become, Sessions!Terminal,
            Sessions!PhysicallyActive, Sessions!OccupiesConnector,
            OccupiesConnector, PhysicallyActive, Passing, Pending, Exists, Started
<1>1. None \notin Tx /\ None \notin SessionState /\ Request \cap Tx = {}
      /\ Request \subseteq Session /\ Tx \subseteq Session
  BY Constants, CommandParts
<1>2. ASSUME NEW r \in Request, Sessions!Accept(r) PROVE SessionRows'
  <2>1. r \in Session /\ r \notin Tx
    BY <1>1
  <2>2. state' = [state EXCEPT ![r] = "starting"] /\ tx' = tx /\ reserved' = {r}
        /\ state[r] = None
        /\ \A s \in Session : state[s] \in {"completed", "failed", "cancelled",
                                         "expired", None}
    BY <1>2 DEF Sessions!Accept, Session
  <2>3. \A s \in Session : state'[s] \notin Passing
    BY <2>1, <2>2 DEF SessionRows, SessionsTyped
  <2>4. StartedIffPhysical'
    BY <2>1, <2>2, <1>1
    DEF SessionRows, SessionsTyped, StartedIffPhysical, SessionState
  <2>5. OneSessionPerTx'
    BY <2>1, <2>2 DEF SessionRows, SessionsTyped, OneSessionPerTx
  <2>6. \A t \in Tx : state'[t] # None => tx'[t] = t
    BY <2>1, <2>2, <1>1 DEF SessionRows, SessionsTyped
  <2>7. ReservedIffPending'
    BY <2>1, <2>2, <1>1 DEF SessionRows, SessionsTyped, ReservedIffPending, SessionState
  <2> QED
    BY <2>3, <2>4, <2>5, <2>6, <2>7 DEF SessionRows
<1>3. ASSUME NEW s \in Session, Sessions!GiveUp(s) PROVE SessionRows'
  <2>1. PICK next \in {"failed", "cancelled", "expired"} : state' = [state EXCEPT ![s] = next]
    BY <1>3 DEF Sessions!GiveUp
  <2>2. /\ state[s] = "starting" /\ reserved' = reserved \ {s}
        /\ UNCHANGED tx
    BY <1>3 DEF Sessions!GiveUp, SessionRows, ReservedIffPending
  <2>3. \A other \in Session : state'[other] \notin Passing
    BY <2>1, <2>2 DEF SessionRows, SessionsTyped
  <2>4. StartedIffPhysical'
    BY <2>1, <2>2, <1>1 DEF SessionRows, SessionsTyped, StartedIffPhysical
  <2>5. OneSessionPerTx'
    BY <2>2 DEF SessionRows, OneSessionPerTx
  <2>6. \A t \in Tx : state'[t] # None => tx'[t] = t
    BY <2>1, <2>2, <1>1 DEF SessionRows, SessionsTyped, SessionState
  <2>7. ReservedIffPending'
    BY <2>1, <2>2, <1>1 DEF SessionRows, SessionsTyped, ReservedIffPending
  <2> QED
    BY <2>3, <2>4, <2>5, <2>6, <2>7 DEF SessionRows
<1>4. ASSUME NEW s \in Session, Sessions!Continue(s) PROVE SessionRows'
  <2>1. PICK next \in PhysicallyActive : state' = [state EXCEPT ![s] = next]
    BY <1>4 DEF Sessions!Continue
  <2>2. /\ state[s] \in PhysicallyActive /\ reserved' = reserved
        /\ UNCHANGED tx
    BY <1>4 DEF Sessions!Continue, SessionRows, ReservedIffPending
  <2>3. \A other \in Session : state'[other] \notin Passing
    BY <2>1, <2>2 DEF SessionRows, SessionsTyped
  <2>4. StartedIffPhysical'
    BY <2>1, <2>2, <1>1 DEF SessionRows, SessionsTyped, StartedIffPhysical
  <2>5. OneSessionPerTx'
    BY <2>2 DEF SessionRows, OneSessionPerTx
  <2>6. \A t \in Tx : state'[t] # None => tx'[t] = t
    BY <2>1, <2>2, <1>1 DEF SessionRows, SessionsTyped, SessionState
  <2>7. ReservedIffPending'
    BY <2>1, <2>2, <1>1 DEF SessionRows, SessionsTyped, ReservedIffPending
  <2> QED
    BY <2>3, <2>4, <2>5, <2>6, <2>7 DEF SessionRows
<1>5. ASSUME NEW s \in Session, Sessions!End(s) PROVE SessionRows'
  <2>1. PICK next \in {"review_required", "completed"} : state' = [state EXCEPT ![s] = next]
    BY <1>5 DEF Sessions!End
  <2>2. /\ state[s] \in PhysicallyActive \cup {"review_required"} /\ reserved' = reserved
        /\ UNCHANGED tx
    BY <1>5 DEF Sessions!End, SessionRows, ReservedIffPending
  <2>3. \A other \in Session : state'[other] \notin Passing
    BY <2>1, <2>2 DEF SessionRows, SessionsTyped
  <2>4. StartedIffPhysical'
    BY <2>1, <2>2, <1>1 DEF SessionRows, SessionsTyped, StartedIffPhysical
  <2>5. OneSessionPerTx'
    BY <2>2 DEF SessionRows, OneSessionPerTx
  <2>6. \A t \in Tx : state'[t] # None => tx'[t] = t
    BY <2>1, <2>2, <1>1 DEF SessionRows, SessionsTyped, SessionState
  <2>7. ReservedIffPending'
    BY <2>1, <2>2, <1>1 DEF SessionRows, SessionsTyped, ReservedIffPending
  <2> QED
    BY <2>3, <2>4, <2>5, <2>6, <2>7 DEF SessionRows
<1>6. ASSUME NEW s \in Session, NEW t \in Tx, Sessions!Begin(s, t)
      PROVE  SessionRows'
  <2>1. PICK next \in PhysicallyActive : state' = [state EXCEPT ![s] = next]
    BY <1>6 DEF Sessions!Begin
  <2>2. /\ tx' = [tx EXCEPT ![s] = t]
        /\ reserved' = reserved \ {s}
        /\ \A other \in Session : /\ tx[other] # t
                                  /\ state[other] \notin OccupiesConnector
        /\ s \in Request \/ s = t
    BY <1>6 DEF Sessions!Begin, Session
  <2>3. \A other \in Session : state'[other] \notin Passing
    BY <2>1, <2>2 DEF SessionRows, SessionsTyped
  <2>4. StartedIffPhysical'
    BY <2>1, <2>2, <1>1 DEF SessionRows, SessionsTyped, StartedIffPhysical
  <2>5. OneSessionPerTx'
    BY <2>1, <2>2, <1>1 DEF SessionRows, SessionsTyped, OneSessionPerTx
  <2>6. \A u \in Tx : state'[u] # None => tx'[u] = u
    BY <2>1, <2>2, <1>1 DEF SessionRows, SessionsTyped
  <2>7. ReservedIffPending'
    BY <2>1, <2>2, <1>1 DEF SessionRows, SessionsTyped, ReservedIffPending
  <2> QED
    BY <2>3, <2>4, <2>5, <2>6, <2>7 DEF SessionRows
<1>7. CASE UNCHANGED <<state, tx, reserved>>
  BY <1>7 DEF SessionRows, StartedIffPhysical, OneSessionPerTx,
              ReservedIffPending
<1> QED
  BY <1>2, <1>3, <1>4, <1>5, <1>6, <1>7 DEF Sessions!Next, Session

(* A cancelled session was a start that waited.                            *)
LEMMA CancelGivesUp ==
  ASSUME SessionsTyped, SessionRows, NEW s \in Session, CancelSession(s)
  PROVE  Sessions!GiveUp(s)
<1>1. state[s] \in SessionState
  BY DEF SessionsTyped, CancelSession, Exists
<1>2. state[s] = "starting"
  BY <1>1, Transitions DEF CancelSession, SessionRows, Passing
<1> QED
  BY <1>2 DEF CancelSession, Become, Release, Sessions!GiveUp, Sessions!Become,
              Sessions!Terminal

(* An outcome gives a start up, resumes a session or leaves it.            *)
LEMMA OutcomeAllowed ==
  ASSUME Typed, CommandRows, SessionRows, NEW c \in Command, cmd[c] # None,
         NEW outcome, ApplyOutcome(c, outcome)
  PROVE  [Sessions!Next]_<<state, tx, reserved>>
<1>1. c[1] \in Session
  BY CommandParts
<1>2. CASE FailsSession(c, outcome) /\ Become(c[1], "failed") /\ Release(c[1], TRUE)
  <2>1. c \in StartCommand /\ c[1] \in Request /\ c = <<c[1], "start">>
    BY <1>2, CommandParts DEF FailsSession
  <2>2. Exists(c[1])
    BY <2>1 DEF CommandRows
  <2>3. state[c[1]] \in SessionState /\ SessionMay(state[c[1]], "failed")
    BY <1>1, <1>2, <2>2
    DEF Typed, SessionsTyped, Exists, ApplyOutcome, ApplyThrows
  <2>4. state[c[1]] = "starting"
    BY <1>1, <1>2, <2>3, Transitions DEF FailsSession, SessionRows, Passing, Terminal
  <2>5. Sessions!GiveUp(c[1])
    BY <1>2, <2>4
    DEF ApplyOutcome, Become, Release, Sessions!GiveUp, Sessions!Become,
        Sessions!Terminal
  <2> QED
    BY <1>1, <2>5 DEF Sessions!Next, Sessions!Session, Session
<1>3. CASE ResumesSession(c, outcome) /\ Become(c[1], resume[c]) /\ KeepReservation
  <2>1. resume[c] \in PhysicallyActive /\ state[c[1]] = "stopping"
    <3>1. resume[c] \in Stoppable \cup {None}
      BY <1>3 DEF ResumesSession, Typed, CommandsTyped
    <3>2. resume[c] # None
      BY <1>3, Constants
      DEF ResumesSession, SessionMay, SessionNext, SessionState
    <3> QED
      BY <1>3, <3>1, <3>2, Transitions DEF ResumesSession
  <2>2. Sessions!Continue(c[1])
    BY <1>3, <2>1
    DEF ApplyOutcome, Become, KeepReservation, connectorVars, Sessions!Continue,
        Sessions!Become, Sessions!PhysicallyActive, PhysicallyActive
  <2> QED
    BY <1>1, <2>2 DEF Sessions!Next, Sessions!Session, Session
<1>4. CASE UNCHANGED state /\ KeepReservation
  BY <1>4 DEF ApplyOutcome, KeepReservation, connectorVars
<1> QED
  BY <1>2, <1>3, <1>4 DEF ApplyOutcome

(* Evidence of transaction t that legally moves s to a physical state      *)
(* begins the session or continues it.                                     *)
LEMMA EvidenceAllowed ==
  ASSUME Typed, SessionRows, NEW t \in Tx, NEW s \in Session,
         s \in SessionForStart(t) \/ s \in FindOrReconstruct(t),
         NEW target \in PhysicallyActive \ {"stopping"},
         SessionMay(StateOrNew(s), target), ConnectorFreeFor(s),
         Become(s, target), tx' = [tx EXCEPT ![s] = t],
         reserved' = reserved \/ reserved' = reserved \ {s},
         reserved' = reserved => s \notin SessionForStart(t) \ FindOrReconstruct(t)
  PROVE  [Sessions!Next]_<<state, tx, reserved>>
<1>1. Request \subseteq Session /\ Tx \subseteq Session /\ None \notin Tx
      /\ None \notin SessionState /\ Request \cap Tx = {}
  BY Constants, CommandParts
<1>2. CASE s \in SessionsOf(t)
  <2>1. tx[s] = t /\ Started(s)
    BY <1>1, <1>2 DEF SessionsOf, Started
  <2>2. state[s] \in OccupiesConnector \cup {"review_required", "completed"}
    BY <2>1 DEF SessionRows, StartedIffPhysical
  <2>3. state[s] \in PhysicallyActive
    <3>1. state[s] \in SessionState
      BY <2>2 DEF OccupiesConnector, PhysicallyActive, SessionState
    <3>2. SessionMay(state[s], target)
      BY <3>1, <1>1 DEF StateOrNew, Exists
    <3>3. target \in {"charging", "suspended_by_ev", "suspended_by_evse"}
      BY DEF PhysicallyActive
    <3>4. state[s] \in PhysicallyActive \cup {"starting"}
      BY <3>1, <3>2, <3>3, Transitions
    <3> QED
      BY <2>2, <3>4 DEF OccupiesConnector, PhysicallyActive
  <2>4. s \notin reserved
    BY <2>3 DEF SessionRows, ReservedIffPending, Pending, PhysicallyActive
  <2>5. tx' = tx /\ reserved' = reserved
    BY <2>1, <2>4 DEF Typed, SessionsTyped
  <2>6. Sessions!Continue(s)
    BY <2>3, <2>5
    DEF Become, Sessions!Continue, Sessions!Become, Sessions!PhysicallyActive,
        PhysicallyActive
  <2> QED
    BY <2>6 DEF Sessions!Next, Sessions!Session, Session
<1>3. CASE s \notin SessionsOf(t)
  <2>1. SessionsOf(t) = {}
    BY <1>3 DEF SessionForStart, FindOrReconstruct
  <2>2. \A other \in Session : tx[other] # t
    BY <2>1 DEF SessionsOf
  <2>3. \/ s \in Request /\ state[s] = "starting"
        \/ s = t /\ state[s] = None
    <3>1. CASE s = t
      BY <3>1, <2>2 DEF SessionRows, Exists
    <3>2. CASE s \in PendingFor(t)
      BY <3>2, <1>1 DEF PendingFor, Pending, SessionRows, Passing
    <3> QED
      BY <2>1, <3>1, <3>2 DEF SessionForStart, FindOrReconstruct
  <2>4. \A other \in Session : state[other] \notin OccupiesConnector
    BY <2>3, <1>1
    DEF ConnectorFreeFor, OccupiesConnector, PhysicallyActive, SessionState
  <2>5. reserved' = reserved \ {s}
    <3>1. CASE s = t
      BY <3>1, <2>3, <1>1
      DEF SessionRows, ReservedIffPending, Pending, SessionState
    <3>2. CASE s # t
      BY <3>2, <2>1 DEF SessionForStart, FindOrReconstruct
    <3> QED
      BY <3>1, <3>2
  <2>6. Sessions!Begin(s, t)
    BY <2>2, <2>3, <2>4, <2>5
    DEF Become, Sessions!Begin, Sessions!Become, Sessions!Session, Session,
        Sessions!PhysicallyActive, PhysicallyActive,
        Sessions!OccupiesConnector, OccupiesConnector
  <2> QED
    BY <2>6 DEF Sessions!Next, Sessions!Session, Session
<1> QED
  BY <1>2, <1>3

(* Every step of Charging is one that ConnectorSessions allows.            *)
LEMMA SessionStep ==
  ASSUME Typed, CommandRows, SessionRows, [Next]_vars
  PROVE  [Sessions!Next]_<<state, tx, reserved>>
<1> DEFINE Allowed == [Sessions!Next]_<<state, tx, reserved>>
<1> USE DEF Sessions!Session, Session
<1>1. ASSUME NEW r \in Request, RemoteStart(r) PROVE Allowed
  <2>1. Sessions!Accept(r)
    BY <1>1
    DEF RemoteStart, Exists, Become, Sessions!Accept, Sessions!Become,
        Sessions!Terminal, Terminal
  <2> QED
    BY <2>1 DEF Sessions!Next
<1>2. ASSUME NEW s \in Session, CancelSession(s) PROVE Allowed
  BY <1>2, CancelGivesUp DEF Sessions!Next, Typed
<1>3. ASSUME NEW c \in StopCommand, RemoteStop(c) PROVE Allowed
  <2>1. c[1] \in Session
    BY CommandParts
  <2>2. state[c[1]] \in PhysicallyActive
    BY <1>3, <2>1
    DEF RemoteStop, StoppableTransaction, Stoppable, SessionRows,
        StartedIffPhysical, OccupiesConnector, PhysicallyActive
  <2>3. Sessions!Continue(c[1])
    BY <1>3, <2>2
    DEF RemoteStop, Become, connectorVars, Sessions!Continue, Sessions!Become,
        Sessions!PhysicallyActive, PhysicallyActive
  <2> QED
    BY <2>1, <2>3 DEF Sessions!Next
<1>4. ASSUME NEW r \in Request, ExpireSession(r) PROVE Allowed
  <2>1. state[r] = "starting"
    BY <1>4, CommandParts DEF ExpireSession, OverdueStart, Pending, SessionRows, Passing
  <2>2. CASE Become(r, "expired") /\ Release(r, TRUE)
    <3>1. Sessions!GiveUp(r)
      BY <1>4, <2>1, <2>2
      DEF ExpireSession, Become, Release, Sessions!GiveUp, Sessions!Become,
          Sessions!Terminal
    <3> QED
      BY <3>1 DEF Sessions!Next
  <2>3. CASE UNCHANGED <<state, connectorVars>>
    BY <1>4, <2>3 DEF ExpireSession, connectorVars
  <2> QED
    BY <1>4, <2>2, <2>3 DEF ExpireSession
<1>5. ASSUME NEW c \in Command, ExpireCommand(c) PROVE Allowed
  BY <1>5, OutcomeAllowed, Constants
  DEF ExpireCommand, Expirable, Settles, CommandState
<1>6. ASSUME NEW c \in Command, JobApply(c) PROVE Allowed
  <2>1. CASE ApplyOutcome(c, cmd[c])
    <3>1. cmd[c] # None
      BY <1>6, Constants DEF JobApply, CommandRows, CommandTerminal
    <3> QED
      BY <2>1, <3>1, OutcomeAllowed
  <2>2. CASE UNCHANGED <<sessionVars, connectorVars>>
    BY <2>2 DEF sessionVars, connectorVars
  <2> QED
    BY <1>6, <2>1, <2>2 DEF JobApply
<1>7. ASSUME NEW c \in Command, NEW outcome \in GatewayOutcome,
             JobOutcome(c, outcome)
      PROVE  Allowed
  <2>1. cmd[c] # None
    BY <1>7 DEF JobOutcome, CommandRows
  <2>2. CASE ApplyOutcome(c, outcome)
    BY <2>1, <2>2, OutcomeAllowed
  <2>3. CASE ApplyOutcome(c, "delivery_unknown")
    BY <2>1, <2>3, OutcomeAllowed
  <2>4. CASE UNCHANGED <<sessionVars, connectorVars>>
    BY <2>4 DEF sessionVars, connectorVars
  <2> QED
    BY <1>7, <2>2, <2>3, <2>4 DEF JobOutcome, Settles
<1>8. ASSUME NEW e \in Event, StartObserved(e) PROVE Allowed
  <2>1. CASE UNCHANGED <<sessionVars, connectorVars>>
    BY <2>1 DEF sessionVars, connectorVars
  <2>2. ASSUME NEW s \in SessionForStart(e.tx), StartLegal(s),
               Become(s, "charging"), tx' = [tx EXCEPT ![s] = e.tx],
               reserved' = reserved \ {s}
        PROVE  Allowed
    <3>1. e.tx \in Tx /\ s \in Session
      BY EventParts, Candidates
    <3>2. reserved' = reserved => s \notin SessionForStart(e.tx) \ FindOrReconstruct(e.tx)
      BY <2>2, <3>1, Constants
      DEF SessionForStart, FindOrReconstruct, PendingFor, SessionRows,
          ReservedIffPending
    <3>3. "charging" \in PhysicallyActive \ {"stopping"}
      BY DEF PhysicallyActive
    <3> QED
      BY <2>2, <3>1, <3>2, <3>3, EvidenceAllowed DEF StartLegal
  <2> QED
    BY <1>8, <2>1, <2>2 DEF StartObserved, Quarantined
<1>9. ASSUME NEW e \in Event, TransactionUpdated(e) PROVE Allowed
  <2>1. CASE UNCHANGED <<sessionVars, connectorVars>>
    BY <2>1 DEF sessionVars, connectorVars
  <2>2. ASSUME NEW s \in FindOrReconstruct(e.tx), NEW target \in UpdateTarget(e),
               UpdateLegal(s, target),
               Become(s, IF SessionMay(StateOrNew(s), target)
                         THEN target ELSE state[s]),
               tx' = [tx EXCEPT ![s] = e.tx], UNCHANGED connectorVars
        PROVE  Allowed
    <3>1. e.tx \in Tx /\ s \in Session
          /\ target \in PhysicallyActive \ {"stopping"}
      BY EventParts, Candidates DEF UpdateTarget, PhysicallyActive
    <3>2. CASE SessionMay(StateOrNew(s), target)
      BY <2>2, <3>1, <3>2, EvidenceAllowed DEF UpdateLegal, connectorVars
    <3>3. CASE ~SessionMay(StateOrNew(s), target)
      <4>1. Exists(s)
        BY <3>1, <3>3
        DEF StateOrNew, SessionMay, SessionNext, PhysicallyActive
      <4>2. tx[s] = e.tx
        BY <3>1, <4>1 DEF FindOrReconstruct, SessionsOf, SessionRows
      <4>3. UNCHANGED <<state, tx, reserved>>
        BY <2>2, <3>1, <3>3, <4>2
        DEF Become, connectorVars, Typed, SessionsTyped
      <4> QED
        BY <4>3
    <3> QED
      BY <3>2, <3>3
  <2> QED
    BY <1>9, <2>1, <2>2 DEF TransactionUpdated, Quarantined
<1>10. ASSUME NEW e \in Event, EndObserved(e) PROVE Allowed
  <2>1. CASE UNCHANGED <<sessionVars, connectorVars>>
    BY <2>1 DEF sessionVars, connectorVars
  <2>2. ASSUME NEW s \in SessionsOf(e.tx), StopLegal(s),
               Become(s, "review_required") \/ Become(s, "completed"),
               Release(s, FALSE), UNCHANGED tx
        PROVE  Allowed
    <3>1. s \in Session /\ Started(s)
      BY EventParts, Constants DEF SessionsOf, Started
    <3>2. state[s] \in OccupiesConnector \cup {"review_required", "completed"}
      BY <3>1 DEF SessionRows, StartedIffPhysical
    <3>3. state[s] \in SessionState
      BY <3>2 DEF OccupiesConnector, PhysicallyActive, SessionState
    <3>4. state[s] \in PhysicallyActive \cup {"review_required"}
      <4>1. state[s] # "finalizing"
        BY <3>1 DEF SessionRows, Passing
      <4>2. state[s] \in PhysicallyActive \cup {"starting", "finalizing",
                                              "review_required"}
        BY <2>2, <3>3, Transitions DEF StopLegal
      <4> QED
        BY <3>2, <4>1, <4>2 DEF OccupiesConnector, PhysicallyActive
    <3>5. s \notin reserved
      BY <3>1, <3>4 DEF SessionRows, ReservedIffPending, Pending, PhysicallyActive
    <3>6. Sessions!End(s)
      BY <2>2, <3>4, <3>5
      DEF Become, Release, Sessions!End, Sessions!Become,
          Sessions!PhysicallyActive, PhysicallyActive
    <3> QED
      BY <3>1, <3>6 DEF Sessions!Next
  <2> QED
    BY <1>10, <2>1, <2>2
    DEF EndObserved, Generate, Quarantined, ReviewRecord, FinalizeRecord
<1>11. ASSUME NEW e \in Event, MeterObserved(e) \/ ConsumerFails(e) PROVE Allowed
  BY <1>11
  DEF MeterObserved, ConsumerFails, Quarantined, sessionVars, connectorVars
<1>12. ASSUME NEW w \in Reviewer, GenerateReviewed(w) PROVE Allowed
  <2>1. CASE UNCHANGED state
    BY <1>12, <2>1 DEF GenerateReviewed, connectorVars
  <2>2. CASE /\ GenerateLegal(reviewing[w].session)
             /\ Become(reviewing[w].session, "completed")
    <3> DEFINE s == reviewing[w].session
    <3>1. s \in Session
      BY <1>12 DEF GenerateReviewed, Typed, RowsTyped
    <3>2. CASE state[s] = "completed"
      BY <1>12, <2>2, <3>1, <3>2
      DEF GenerateReviewed, connectorVars, Become, Typed, SessionsTyped
    <3>3. CASE state[s] = "review_required"
      <4>1. Sessions!End(s)
        BY <1>12, <2>2, <3>3
        DEF GenerateReviewed, connectorVars, Become, Sessions!End, Sessions!Become
      <4> QED
        BY <3>1, <4>1 DEF Sessions!Next
    <3> QED
      BY <2>2, <3>2, <3>3 DEF GenerateLegal
  <2> QED
    BY <1>12, <2>1, <2>2 DEF GenerateReviewed, FinalizeRecord
<1>13. ASSUME UNCHANGED <<sessionVars, connectorVars>> PROVE Allowed
  BY <1>13 DEF sessionVars, connectorVars
<1>14. ASSUME NEW c \in Command,
              RepeatRequest(c) \/ DeadlinePasses(c) \/ JobBegin(c) \/ WorkerDies(c)
       PROVE  Allowed
  BY <1>13, <1>14 DEF RepeatRequest, DeadlinePasses, JobBegin, WorkerDies
<1>15. ASSUME NEW status, StatusReported(status) PROVE Allowed
  BY <1>15 DEF StatusReported, sessionVars
<1>16. ASSUME NEW w \in Reviewer,
              \/ ReviewerDies(w)
              \/ \E s \in Session, decision \in Decision, adjusts \in BOOLEAN :
                   ResolveReview(w, s, decision, adjusts)
       PROVE  Allowed
  BY <1>16 DEF ReviewerDies, ResolveReview, sessionVars, connectorVars
<1>17. ASSUME NEW t \in Tx, BeginTx(t) \/ EndTx(t) PROVE Allowed
  BY <1>13, <1>17 DEF BeginTx, EndTx
<1>18. CASE UNCHANGED vars
  BY <1>13, <1>18 DEF vars
<1>19. CASE Progress
  BY <1>19, <1>2, <1>4, <1>5, <1>6, <1>7, <1>8, <1>9, <1>10, <1>11, <1>12,
     <1>14, <1>16, <1>17 DEF Progress, Consume, OperatorCancel
<1>20. ASSUME NEW r \in Request, WithdrawStart(r) PROVE Allowed
  BY <1>2, <1>20 DEF WithdrawStart
<1> QED
  BY <1>1, <1>3, <1>15, <1>18, <1>19, <1>20, Constants DEF Next

-----------------------------------------------------------------------------
(* The remaining rows keep their types.                                    *)

ConnectorTyped == connector \in Availability /\ preparing \in BOOLEAN

RecordsTyped == records \in [Session -> Seq(Record)]

OthersTyped ==
  /\ reviewing \in [Reviewer -> [session : Session, decision : Decision]
                                \cup {None}]
  /\ inbox \in [Event -> {"pending", "processed", "quarantined"}]
  /\ phase \in [Tx -> {"unused", "running", "over"}]
  /\ known \in [Tx -> SUBSET Request]

(* The connector and its report.                                           *)
LEMMA ConnectorTypedStep ==
  ASSUME ConnectorTyped, [Next]_vars
  PROVE  ConnectorTyped'
<1> USE DEF ConnectorTyped, Availability
<1>1. ASSUME NEW s, NEW restore, Release(s, restore) PROVE ConnectorTyped'
  BY <1>1 DEF Release
<1>2. ASSUME UNCHANGED connectorVars PROVE ConnectorTyped'
  BY <1>2 DEF connectorVars
<1>3. ASSUME NEW r, RemoteStart(r) PROVE ConnectorTyped'
  BY <1>3 DEF RemoteStart
<1>4. ASSUME NEW status, StatusReported(status) PROVE ConnectorTyped'
  <2>1. AvailabilityOf(status) \in Availability
    BY DEF AvailabilityOf
  <2> QED
    BY <1>4, <2>1 DEF StatusReported
<1>5. ASSUME NEW c, NEW outcome, ApplyOutcome(c, outcome) PROVE ConnectorTyped'
  BY <1>1, <1>2, <1>5 DEF ApplyOutcome, KeepReservation
<1>6. ASSUME NEW e \in Event, StartObserved(e) PROVE ConnectorTyped'
  BY <1>2, <1>6 DEF StartObserved, Quarantined
<1>7. ASSUME NEW e \in Event, EndObserved(e) PROVE ConnectorTyped'
  BY <1>1, <1>2, <1>7 DEF EndObserved, Generate, Quarantined
<1>8. ASSUME NEW e \in Event,
             TransactionUpdated(e) \/ MeterObserved(e) \/ ConsumerFails(e)
      PROVE  ConnectorTyped'
  BY <1>2, <1>8 DEF TransactionUpdated, MeterObserved, ConsumerFails, Quarantined,
                    connectorVars
<1>9. ASSUME NEW c \in Command,
             \/ RepeatRequest(c) \/ DeadlinePasses(c) \/ ExpireCommand(c)
             \/ JobBegin(c) \/ JobApply(c) \/ WorkerDies(c)
             \/ \E outcome \in GatewayOutcome : JobOutcome(c, outcome)
      PROVE  ConnectorTyped'
  BY <1>2, <1>5, <1>9
  DEF RepeatRequest, DeadlinePasses, ExpireCommand, JobBegin, JobApply,
      WorkerDies, JobOutcome, Settles
<1>10. ASSUME NEW r, ExpireSession(r) PROVE ConnectorTyped'
  BY <1>1, <1>2, <1>10 DEF ExpireSession
<1>11. ASSUME NEW s, CancelSession(s) PROVE ConnectorTyped'
  BY <1>1, <1>11 DEF CancelSession
<1>12. ASSUME NEW w \in Reviewer,
              \/ \E s \in Session, decision \in Decision, adjusts \in BOOLEAN :
                   ResolveReview(w, s, decision, adjusts)
              \/ GenerateReviewed(w) \/ ReviewerDies(w)
       PROVE  ConnectorTyped'
  BY <1>2, <1>12 DEF ResolveReview, GenerateReviewed, ReviewerDies
<1>13. ASSUME NEW t \in Tx, BeginTx(t) \/ EndTx(t) PROVE ConnectorTyped'
  BY <1>2, <1>13 DEF BeginTx, EndTx
<1>14. ASSUME NEW c, RemoteStop(c) PROVE ConnectorTyped'
  BY <1>2, <1>14 DEF RemoteStop
<1>15. CASE UNCHANGED vars
  BY <1>2, <1>15 DEF vars
<1>16. CASE Progress
  BY <1>6, <1>7, <1>8, <1>9, <1>10, <1>11, <1>12, <1>13, <1>16
  DEF Progress, Consume, OperatorCancel
<1> QED
  BY <1>3, <1>4, <1>11, <1>14, <1>15, <1>16 DEF Next, WithdrawStart

(* The steps that write records, and how.                                  *)
LEMMA RecordSteps ==
  ASSUME Typed, [Next]_vars
  PROVE  \/ UNCHANGED records
         \/ \E s \in Session :
              \/ ReviewRecord(s)
              \/ \E outcome \in Decision, evidence \in SUBSET (Event \cup {Adjusted}) :
                   FinalizeRecord(s, outcome, evidence)
<1>1. ASSUME NEW e \in Event, EndObserved(e) PROVE
        \/ UNCHANGED records
        \/ \E s \in Session :
             \/ ReviewRecord(s)
             \/ \E outcome \in Decision, evidence \in SUBSET (Event \cup {Adjusted}) :
                  FinalizeRecord(s, outcome, evidence)
  <2>1. ASSUME NEW s \in SessionsOf(e.tx), Measures(s, e)
        PROVE  s \in Session /\ measured'[s] \in SUBSET (Event \cup {Adjusted})
    <3>1. s \in Session
      BY <2>1, EventParts, Candidates
    <3>2. MayMeasure(s, e)
      BY <2>1 DEF MayMeasure
    <3> QED
      BY <3>1, <3>2, MeasureTyped DEF Typed
  <2>2. "complete" \in Decision
    BY DEF Decision
  <2> QED
    BY <1>1, <2>1, <2>2 DEF EndObserved, Generate, Quarantined
<1>2. ASSUME NEW w \in Reviewer, GenerateReviewed(w) PROVE
        \/ UNCHANGED records
        \/ \E s \in Session, outcome \in Decision,
              evidence \in SUBSET (Event \cup {Adjusted}) :
              FinalizeRecord(s, outcome, evidence)
  <2>1. reviewing[w].session \in Session /\ reviewing[w].decision \in Decision
    BY <1>2 DEF GenerateReviewed, Typed, RowsTyped
  <2>2. measured[reviewing[w].session] \in SUBSET (Event \cup {Adjusted})
    BY <2>1 DEF Typed, SessionsTyped
  <2> QED
    BY <1>2, <2>1, <2>2 DEF GenerateReviewed
<1>3. ASSUME NEW e \in Event,
             \/ StartObserved(e) \/ TransactionUpdated(e) \/ MeterObserved(e)
             \/ ConsumerFails(e)
      PROVE  UNCHANGED records
  BY <1>3 DEF StartObserved, TransactionUpdated, MeterObserved, ConsumerFails,
              Quarantined
<1>4. ASSUME UNCHANGED reviewVars PROVE UNCHANGED records
  BY <1>4 DEF reviewVars
<1>5. ASSUME NEW c \in Command,
             \/ RepeatRequest(c) \/ DeadlinePasses(c) \/ ExpireCommand(c)
             \/ JobBegin(c) \/ JobApply(c) \/ WorkerDies(c)
             \/ \E outcome \in GatewayOutcome : JobOutcome(c, outcome)
      PROVE  UNCHANGED records
  BY <1>4, <1>5
  DEF RepeatRequest, DeadlinePasses, ExpireCommand, JobBegin, JobApply,
      WorkerDies, JobOutcome
<1>6. ASSUME NEW r, RemoteStart(r) \/ WithdrawStart(r) \/ ExpireSession(r)
      PROVE  UNCHANGED records
  BY <1>4, <1>6 DEF RemoteStart, WithdrawStart, ExpireSession
<1>7. ASSUME NEW s, OperatorCancel(s) PROVE UNCHANGED records
  BY <1>4, <1>7 DEF OperatorCancel
<1>8. ASSUME NEW w \in Reviewer,
             \/ \E s \in Session, decision \in Decision, adjusts \in BOOLEAN :
                  ResolveReview(w, s, decision, adjusts)
             \/ ReviewerDies(w)
      PROVE  UNCHANGED records
  BY <1>8 DEF ResolveReview, ReviewerDies
<1>9. ASSUME NEW t \in Tx, BeginTx(t) \/ EndTx(t) PROVE UNCHANGED records
  BY <1>4, <1>9 DEF BeginTx, EndTx
<1>10. ASSUME NEW c, RemoteStop(c) PROVE UNCHANGED records
  BY <1>4, <1>10 DEF RemoteStop
<1>11. ASSUME NEW status, StatusReported(status) PROVE UNCHANGED records
  BY <1>4, <1>11 DEF StatusReported
<1>12. CASE UNCHANGED vars
  BY <1>4, <1>12 DEF vars
<1>13. CASE Progress
  BY <1>1, <1>2, <1>3, <1>5, <1>6, <1>7, <1>8, <1>9, <1>13 DEF Progress, Consume
<1> QED
  BY <1>6, <1>10, <1>11, <1>12, <1>13 DEF Next

(* A version more, or the latest one written: earlier ones stay.           *)
LEMMA WithRecordIs ==
  ASSUME RecordsTyped, NEW s \in Session, NEW record \in Record
  PROVE  LET versions == WithRecord(s, record)
             n == Len(records[s])
             m == IF n = 0 \/ n \in Finalized(s) THEN n + 1 ELSE n
         IN /\ versions \in Seq(Record)
            /\ Len(versions) = m /\ m > 0
            /\ versions[m] = record
            /\ \A i \in 1..n : i # m => versions[i] = records[s][i]
<1> DEFINE q == records[s]
           n == Len(q)
<1>1. q \in Seq(Record) /\ n \in Nat
  BY DEF RecordsTyped
<1>2. CASE n = 0 \/ n \in Finalized(s)
  BY <1>1, <1>2 DEF WithRecord
<1>3. CASE ~(n = 0 \/ n \in Finalized(s))
  <2>1. n \in 1..n /\ WithRecord(s, record) = [q EXCEPT ![n] = record]
    BY <1>1, <1>3 DEF WithRecord
  <2>2. [q EXCEPT ![n] = record] \in Seq(Record)
        /\ Len([q EXCEPT ![n] = record]) = n
    BY <1>1, <2>1
  <2>3. /\ [q EXCEPT ![n] = record][n] = record
        /\ \A i \in 1..n : i # n => [q EXCEPT ![n] = record][i] = q[i]
    BY <1>1, <2>1
  <2> QED
    BY <1>1, <1>3, <2>1, <2>2, <2>3
<1> QED
  BY <1>2, <1>3

(* What a generation writes are records.                                   *)
LEMMA RecordsWritten ==
  /\ [state |-> "review_required", outcome |-> None, total |-> None,
      measured |-> {}] \in Record
  /\ \A outcome \in Decision, total \in Total \cup {None},
        evidence \in SUBSET (Event \cup {Adjusted}) :
       [state |-> "finalized", outcome |-> outcome, total |-> total,
        measured |-> evidence] \in Record
  BY DEF Record

(* Records stay well typed.                                                *)
LEMMA RecordsTypedStep ==
  ASSUME Typed, [Next]_vars
  PROVE  RecordsTyped'
<1>1. RecordsTyped
  BY DEF Typed, RowsTyped, RecordsTyped
<1>2. ASSUME NEW s \in Session, NEW record \in Record,
             records' = [records EXCEPT ![s] = WithRecord(s, record)]
      PROVE  RecordsTyped'
  <2>1. WithRecord(s, record) \in Seq(Record)
    BY <1>1, WithRecordIs
  <2> QED
    BY <1>1, <1>2, <2>1 DEF RecordsTyped
<1>3. ASSUME NEW s \in Session, ReviewRecord(s) PROVE RecordsTyped'
  BY <1>2, <1>3, RecordsWritten DEF ReviewRecord
<1>4. ASSUME NEW s \in Session, NEW outcome \in Decision,
             NEW evidence \in SUBSET (Event \cup {Adjusted}),
             FinalizeRecord(s, outcome, evidence)
      PROVE  RecordsTyped'
  BY <1>2, <1>4, RecordsWritten DEF FinalizeRecord
<1> QED
  BY <1>1, <1>3, <1>4, RecordSteps DEF RecordsTyped

(* Reviews, inbox and the charger's own view stay well typed.              *)
LEMMA OthersTypedStep ==
  ASSUME OthersTyped, [Next]_vars
  PROVE  OthersTyped'
<1>1. ASSUME UNCHANGED <<reviewVars, inbox, chargerVars>> PROVE OthersTyped'
  BY <1>1 DEF reviewVars, chargerVars, OthersTyped
<1>2. ASSUME NEW e \in Event, Consume(e) PROVE OthersTyped'
  <2>1. PICK fate \in {"processed", "quarantined"} : Consumed(e, fate)
    BY <1>2 DEF Consume, StartObserved, TransactionUpdated, EndObserved,
                MeterObserved, ConsumerFails, Quarantined
  <2> QED
    BY <2>1 DEF Consumed, chargerVars, OthersTyped
<1>3. ASSUME NEW w \in Reviewer, NEW s \in Session, NEW decision \in Decision,
             NEW adjusts \in BOOLEAN, ResolveReview(w, s, decision, adjusts)
      PROVE  OthersTyped'
  BY <1>3 DEF ResolveReview, chargerVars, OthersTyped
<1>4. ASSUME NEW w \in Reviewer, GenerateReviewed(w) \/ ReviewerDies(w)
      PROVE  OthersTyped'
  BY <1>4 DEF GenerateReviewed, ReviewerDies, chargerVars, OthersTyped
<1>5. ASSUME NEW t \in Tx, BeginTx(t) \/ EndTx(t) PROVE OthersTyped'
  <2>1. UNCHANGED <<reviewing, inbox>>
    BY <1>5 DEF BeginTx, EndTx, reviewVars
  <2>2. phase' \in [Tx -> {"unused", "running", "over"}]
    BY <1>5 DEF BeginTx, EndTx, OthersTyped
  <2>3. known' \in [Tx -> SUBSET Request]
    <3>1. {r \in Request : Exists(r)} \subseteq Request
      OBVIOUS
    <3> QED
      BY <1>5, <3>1 DEF BeginTx, EndTx, OthersTyped
  <2> QED
    BY <2>1, <2>2, <2>3 DEF OthersTyped
<1>6. ASSUME NEW c \in Command,
             \/ RepeatRequest(c) \/ DeadlinePasses(c) \/ ExpireCommand(c)
             \/ JobBegin(c) \/ JobApply(c) \/ WorkerDies(c)
             \/ \E outcome \in GatewayOutcome : JobOutcome(c, outcome)
      PROVE  OthersTyped'
  BY <1>1, <1>6
  DEF RepeatRequest, DeadlinePasses, ExpireCommand, JobBegin, JobApply,
      WorkerDies, JobOutcome
<1>7. ASSUME NEW r, RemoteStart(r) \/ WithdrawStart(r) \/ ExpireSession(r)
      PROVE  OthersTyped'
  BY <1>1, <1>7 DEF RemoteStart, WithdrawStart, ExpireSession
<1>8. ASSUME NEW s, OperatorCancel(s) PROVE OthersTyped'
  BY <1>1, <1>8 DEF OperatorCancel
<1>9. ASSUME NEW c, RemoteStop(c) PROVE OthersTyped'
  BY <1>1, <1>9 DEF RemoteStop
<1>10. ASSUME NEW status, StatusReported(status) PROVE OthersTyped'
  BY <1>1, <1>10 DEF StatusReported
<1>11. CASE UNCHANGED vars
  BY <1>1, <1>11 DEF vars
<1>12. CASE Progress
  BY <1>2, <1>3, <1>4, <1>5, <1>6, <1>7, <1>8, <1>12 DEF Progress
<1> QED
  BY <1>7, <1>9, <1>10, <1>11, <1>12 DEF Next

-----------------------------------------------------------------------------
(* Commands and their jobs.                                                *)

(* A session that exists never vanishes.                                   *)
LEMMA SessionsStay ==
  ASSUME SessionsTyped, [Sessions!Next]_<<state, tx, reserved>>,
         NEW s \in Session, Exists(s)
  PROVE  Exists(s)'
<1>1. None \notin {"starting", "completed", "failed", "cancelled", "expired",
                  "charging", "suspended_by_ev", "suspended_by_evse", "stopping",
                  "review_required"}
  BY Constants DEF SessionState
<1> QED
  BY <1>1
  DEF SessionsTyped, Exists, Sessions!Next, Sessions!Accept, Sessions!GiveUp,
      Sessions!Begin, Sessions!Continue, Sessions!End, Sessions!Become,
      Sessions!Terminal, Sessions!PhysicallyActive

(* The states a step may give a command, by the state it had.              *)
CommandMoves(c) ==
  \/ cmd'[c] = cmd[c]
  \/ cmd[c] = None /\ cmd'[c] = "requested"
  \/ cmd[c] = "requested" /\ cmd'[c] \in {"dispatched", "expired"}
  \/ cmd[c] = "dispatched" /\ cmd'[c] \in CommandTerminal \ {"expired"}

(* Commands move along their state machine.                                *)
LEMMA CommandsMove ==
  ASSUME Typed, CommandRows, [Next]_vars
  PROVE  \A c \in Command : CommandMoves(c)
<1> USE DEF CommandMoves, Typed, CommandsTyped
<1>1. ASSUME NEW r \in Request, RemoteStart(r)
      PROVE  \A c \in Command : CommandMoves(c)
  <2>1. <<r, "start">> \in Command /\ cmd[<<r, "start">>] = None
    BY <1>1, CommandParts DEF RemoteStart, CommandRows
  <2> QED
    BY <1>1, <2>1 DEF RemoteStart
<1>2. ASSUME NEW r \in Request, WithdrawStart(r)
      PROVE  \A c \in Command : CommandMoves(c)
  BY <1>2, CommandParts DEF WithdrawStart, Undispatched
<1>3. ASSUME NEW d \in StopCommand, RemoteStop(d)
      PROVE  \A c \in Command : CommandMoves(c)
  BY <1>3, CommandParts DEF RemoteStop
<1>4. ASSUME NEW d \in Command, ExpireCommand(d)
      PROVE  \A c \in Command : CommandMoves(c)
  BY <1>4 DEF ExpireCommand, Expirable, ExpiredAs, Settles, CommandTerminal,
              CommandState
<1>5. ASSUME NEW d \in Command, JobBegin(d)
      PROVE  \A c \in Command : CommandMoves(c)
  BY <1>5 DEF JobBegin
<1>6. ASSUME NEW d \in Command, NEW outcome \in GatewayOutcome,
             JobOutcome(d, outcome)
      PROVE  \A c \in Command : CommandMoves(c)
  <2>1. cmd[d] = "dispatched" \/ Answered(d)
    <3>1. cmd[d] \notin {None, "requested"}
      BY <1>6 DEF JobOutcome, CommandRows
    <3> QED
      BY <3>1 DEF Answered, CommandTerminal
  <2>2. CASE UNCHANGED cmd
    BY <2>2
  <2>3. CASE ~Answered(d) /\ \E answer \in GatewayOutcome :
                               cmd' = [cmd EXCEPT ![d] = answer]
    BY <2>1, <2>3 DEF GatewayOutcome, CommandTerminal, CommandState
  <2>4. "delivery_unknown" \in GatewayOutcome
    BY DEF GatewayOutcome
  <2> QED
    BY <1>6, <2>2, <2>3, <2>4 DEF JobOutcome, Settles
<1>7. ASSUME NEW d \in Command,
             RepeatRequest(d) \/ DeadlinePasses(d) \/ JobApply(d) \/ WorkerDies(d)
      PROVE  UNCHANGED cmd
  BY <1>7 DEF RepeatRequest, DeadlinePasses, JobApply, WorkerDies, commandVars
<1>8. CASE UNCHANGED <<commandVars, due>>
  BY <1>8 DEF commandVars
<1> QED
  BY <1>1, <1>2, <1>3, <1>4, <1>5, <1>6, <1>7, <1>8, CommandSteps

(* A step that moves a job of a command finds the command there.           *)
LEMMA JobsBoundedStep ==
  ASSUME Typed, JobsBounded, CommandRows, [Next]_vars
  PROVE  JobsTyped' /\ JobsBounded'
<1>1. ASSUME NEW c \in Command, cmd'[c] = None PROVE cmd[c] = None
  BY <1>1, CommandsMove, Constants
  DEF CommandMoves, CommandState, CommandTerminal
<1>2. CASE UNCHANGED jobs
  BY <1>1, <1>2 DEF Typed, JobsTyped, JobsBounded, JobsOf
<1>3. ASSUME NEW c \in Command, JobsMove(c) PROVE JobsTyped' /\ JobsBounded'
  <2>1. /\ JobsTyped' /\ JobsOf(c)' <= MaxJobs
        /\ \A d \in Command \ {c} : jobs'[d] = jobs[d]
    BY <1>3, JobsMoved DEF Typed, JobsBounded
  <2>2. cmd'[c] # None
    <3>1. CASE cmd[c] # None
      BY <3>1, <1>1
    <3>2. CASE cmd[c] = None
      <4>1. /\ jobs[c].waiting \in Nat /\ jobs[c].calling \in Nat
            /\ jobs[c].applying \in Nat
        BY DEF Typed, JobsTyped
      <4>2. jobs[c].waiting + jobs[c].calling + jobs[c].applying = 0
        BY <3>2 DEF JobsBounded, JobsOf
      <4>3. jobs[c].waiting = 0 /\ jobs[c].calling = 0 /\ jobs[c].applying = 0
        <5>1. \A x, y, z \in Nat : x + y + z = 0 => x = 0 /\ y = 0 /\ z = 0
          OBVIOUS
        <5> QED
          BY <4>1, <4>2, <5>1
      <4>4. \A p \in {"waiting", "calling", "applying"} : ~(jobs[c][p] > 0)
        BY <4>3
      <4>5. cmd'[c] # None
        BY <1>3, <4>3, <4>4 DEF JobsMove
      <4> QED
        BY <4>5
    <3> QED
      BY <3>1, <3>2
  <2> QED
    BY <1>1, <2>1, <2>2 DEF JobsBounded, JobsOf
<1> QED
  BY <1>2, <1>3, JobsStep

(* Commands, dispatches and jobs agree after every step.                   *)
LEMMA CommandRowsStep ==
  ASSUME Typed, JobsBounded, CommandRows, [Next]_vars,
         [Sessions!Next]_<<state, tx, reserved>>
  PROVE  CommandRows'
<1> DEFINE Row(c) ==
      /\ cmd[c] \in {None, "requested"} => c \notin sent /\ jobs[c].calling = 0
      /\ jobs[c].applying > 0 => cmd[c] \in CommandTerminal
<1> USE DEF Typed, CommandsTyped, JobsTyped
<1>1. \A c \in Command : Row(c)
  BY DEF CommandRows
<1>2. None \notin CommandTerminal /\ "requested" \notin CommandTerminal
      /\ "dispatched" \notin CommandTerminal /\ None # "requested"
      /\ None # "dispatched"
  BY Constants DEF CommandTerminal, CommandState
<1>3. ASSUME NEW d \in Command, cmd[d] = None, cmd' = [cmd EXCEPT ![d] = "requested"],
             jobs' = Enqueue(d), UNCHANGED sent
      PROVE  \A c \in Command : Row(c)'
  <2>1. jobs'[d].calling = jobs[d].calling /\ jobs'[d].applying = jobs[d].applying
        /\ \A c \in Command \ {d} : jobs'[c] = jobs[c]
    BY <1>3 DEF Enqueue
  <2> QED
    BY <1>1, <1>2, <1>3, <2>1
<1>4. ASSUME NEW d \in Command, NEW next \in CommandTerminal,
             cmd' = [cmd EXCEPT ![d] = next], UNCHANGED <<jobs, sent>>
      PROVE  \A c \in Command : Row(c)'
  BY <1>1, <1>2, <1>4
<1>5. ASSUME NEW d \in Command, JobBegin(d) PROVE \A c \in Command : Row(c)'
  <2>1. \A c \in Command \ {d} : jobs'[c] = jobs[c] /\ cmd'[c] = cmd[c]
                                /\ (c \in sent' <=> c \in sent)
    BY <1>5 DEF JobBegin
  <2>2. CASE /\ Answered(d) /\ UNCHANGED cmd
             /\ jobs' = [jobs EXCEPT ![d].waiting = @ - 1, ![d].applying = @ + 1]
    BY <1>1, <1>2, <2>1, <2>2 DEF Answered
  <2>3. CASE /\ cmd[d] = "requested" /\ cmd' = [cmd EXCEPT ![d] = "expired"]
    BY <1>1, <1>2, <2>1, <2>3 DEF CommandTerminal, CommandState
  <2>4. CASE /\ cmd[d] = "dispatched" /\ UNCHANGED cmd
             /\ jobs' = [jobs EXCEPT ![d].waiting = @ - 1]
    BY <1>1, <1>2, <2>1, <2>4
  <2>5. CASE /\ cmd[d] \in {"requested", "dispatched"}
             /\ cmd' = [cmd EXCEPT ![d] = "dispatched"]
             /\ jobs' = [jobs EXCEPT ![d].waiting = @ - 1, ![d].calling = @ + 1]
    <3>1. jobs'[d].applying = jobs[d].applying
      BY <2>5
    <3> QED
      BY <1>1, <1>2, <2>1, <2>5, <3>1
  <2> QED
    BY <1>5, <2>2, <2>3, <2>4, <2>5 DEF JobBegin
<1>6. ASSUME NEW d \in Command, NEW p \in {"waiting", "calling", "applying"},
             jobs[d][p] > 0, jobs' = [jobs EXCEPT ![d][p] = @ - 1],
             UNCHANGED sent,
             \/ UNCHANGED cmd
             \/ \E next \in CommandTerminal : cmd' = [cmd EXCEPT ![d] = next]
      PROVE  \A c \in Command : Row(c)'
  <2>1. \A c \in Command \ {d} : jobs'[c] = jobs[c]
    BY <1>6
  <2>2. jobs'[d].applying > 0 => jobs[d].applying > 0
    BY <1>6
  <2>3. jobs[d].calling = 0 => jobs'[d].calling = 0
    BY <1>6
  <2> QED
    BY <1>1, <1>2, <1>6, <2>1, <2>2, <2>3
<1>7. ASSUME NEW d \in Command, RepeatRequest(d) PROVE \A c \in Command : Row(c)'
  <2>1. jobs'[d].calling = jobs[d].calling /\ jobs'[d].applying = jobs[d].applying
        /\ \A c \in Command \ {d} : jobs'[c] = jobs[c]
    BY <1>7 DEF RepeatRequest, Enqueue
  <2> QED
    BY <1>1, <1>7, <2>1 DEF RepeatRequest
<1>8. \A c \in Command : Row(c)'
  <2>1. ASSUME NEW r \in Request, RemoteStart(r) PROVE \A c \in Command : Row(c)'
    <3>1. <<r, "start">> \in Command /\ cmd[<<r, "start">>] = None
      BY <2>1, CommandParts DEF RemoteStart, CommandRows
    <3> QED
      BY <1>3, <2>1, <3>1 DEF RemoteStart
  <2>2. ASSUME NEW r \in Request, WithdrawStart(r)
        PROVE  \A c \in Command : Row(c)'
    <3>1. <<r, "start">> \in Command /\ "expired" \in CommandTerminal
      BY CommandParts DEF CommandTerminal, CommandState
    <3> QED
      BY <1>4, <2>2, <3>1 DEF WithdrawStart
  <2>3. ASSUME NEW d \in StopCommand, RemoteStop(d)
        PROVE  \A c \in Command : Row(c)'
    BY <1>3, <2>3, CommandParts DEF RemoteStop
  <2>4. ASSUME NEW d \in Command, ExpireCommand(d)
        PROVE  \A c \in Command : Row(c)'
    <3>1. ExpiredAs(d) \in CommandTerminal
      BY DEF ExpiredAs, CommandTerminal, CommandState
    <3> QED
      BY <1>4, <2>4, <3>1 DEF ExpireCommand, Settles
  <2>5. ASSUME NEW d \in Command, JobApply(d) \/ WorkerDies(d)
        PROVE  \A c \in Command : Row(c)'
    <3>1. CASE JobApply(d)
      <4>1. jobs[d]["applying"] > 0
            /\ jobs' = [jobs EXCEPT ![d]["applying"] = @ - 1]
            /\ UNCHANGED <<cmd, sent>>
        BY <3>1 DEF JobApply
      <4> QED
        BY <1>6, <4>1
    <3>2. CASE WorkerDies(d)
      BY <1>6, <3>2 DEF WorkerDies
    <3> QED
      BY <2>5, <3>1, <3>2
  <2>6. ASSUME NEW d \in Command, NEW outcome \in GatewayOutcome,
               JobOutcome(d, outcome)
        PROVE  \A c \in Command : Row(c)'
    <3>1. jobs[d]["calling"] > 0
          /\ jobs' = [jobs EXCEPT ![d]["calling"] = @ - 1]
          /\ UNCHANGED sent
      BY <2>6 DEF JobOutcome
    <3>2. \/ UNCHANGED cmd
          \/ \E next \in CommandTerminal : cmd' = [cmd EXCEPT ![d] = next]
      <4>1. outcome \in CommandTerminal /\ "delivery_unknown" \in CommandTerminal
        BY DEF GatewayOutcome, CommandTerminal, CommandState
      <4> QED
        BY <2>6, <4>1 DEF JobOutcome, Settles
    <3> QED
      BY <1>6, <3>1, <3>2
  <2>7. ASSUME NEW d \in Command, DeadlinePasses(d)
        PROVE  \A c \in Command : Row(c)'
    BY <1>1, <2>7 DEF DeadlinePasses, commandVars
  <2>8. CASE UNCHANGED <<commandVars, due>>
    BY <1>1, <2>8 DEF commandVars
  <2> QED
    BY <1>5, <1>7, <2>1, <2>2, <2>3, <2>4, <2>5, <2>6, <2>7, <2>8, CommandSteps
<1>9. ASSUME NEW r \in Request, cmd'[<<r, "start">>] # None PROVE Exists(r)'
  <2> DEFINE c == <<r, "start">>
  <2>1. r \in Session /\ c \in Command /\ c \notin StopCommand
    BY CommandParts
  <2>2. CASE cmd[c] # None
    BY <2>1, <2>2, SessionsStay DEF CommandRows
  <2>3. CASE cmd[c] = None
    <3>1. RemoteStart(r)
      <4>1. ASSUME NEW other \in Request, RemoteStart(other) PROVE other = r
        BY <1>9, <2>3, <4>1, StartUnique DEF RemoteStart
      <4>2. ASSUME NEW other \in Request, WithdrawStart(other) PROVE FALSE
        <5>1. <<other, "start">> # c
          BY <1>2, <2>3, <4>2 DEF WithdrawStart, Undispatched
        <5> QED
          BY <1>9, <2>1, <2>3, <4>2, <5>1 DEF WithdrawStart
      <4>3. ASSUME NEW d \in StopCommand, RemoteStop(d) PROVE FALSE
        BY <1>9, <2>1, <2>3, <4>3 DEF RemoteStop
      <4>4. ASSUME NEW d \in Command, ExpireCommand(d) \/ JobBegin(d) PROVE FALSE
        <5>1. cmd[d] # None
          BY <1>2, <4>4 DEF ExpireCommand, Expirable, JobBegin, Answered
        <5> QED
          BY <1>9, <2>1, <2>3, <4>4, <5>1 DEF ExpireCommand, Settles, JobBegin
      <4>5. ASSUME NEW d \in Command, NEW outcome \in GatewayOutcome,
                   JobOutcome(d, outcome)
            PROVE  FALSE
        <5>1. cmd[d] # None
          BY <4>5, CommandParts DEF JobOutcome, CommandRows
        <5> QED
          BY <1>9, <2>1, <2>3, <4>5, <5>1 DEF JobOutcome, Settles
      <4>6. ASSUME NEW d \in Command,
                   \/ RepeatRequest(d) \/ DeadlinePasses(d) \/ JobApply(d)
                   \/ WorkerDies(d)
            PROVE  FALSE
        BY <1>9, <2>3, <4>6
        DEF RepeatRequest, DeadlinePasses, JobApply, WorkerDies, commandVars
      <4>7. CASE UNCHANGED <<commandVars, due>>
        BY <1>9, <2>3, <4>7 DEF commandVars
      <4> QED
        BY <4>1, <4>2, <4>3, <4>4, <4>5, <4>6, <4>7, CommandSteps
    <3> QED
      BY <2>1, <3>1, Constants
      DEF RemoteStart, Become, Exists, SessionsTyped, SessionState
  <2> QED
    BY <2>2, <2>3
<1> QED
  BY <1>8, <1>9 DEF CommandRows

-----------------------------------------------------------------------------
(* The inductive invariant, and what follows from it.                      *)

Consistent == Typed /\ JobsBounded /\ CommandRows /\ SessionRows

(* Nothing exists at first.                                                *)
LEMMA ConsistentInit == Init => Consistent
<1> SUFFICES ASSUME Init PROVE Consistent
  OBVIOUS
<1>1. /\ None \notin Tx /\ None \notin SessionState /\ None \notin CommandState
      /\ Tx \subseteq Session
  BY Constants, CommandParts
<1>2. Typed /\ JobsBounded
  BY TypedInit
<1>3. CommandRows
  BY CommandParts DEF Init, CommandRows
<1>4. SessionRows
  BY <1>1 DEF Init, SessionRows, StartedIffPhysical,
      OneSessionPerTx, ReservedIffPending, Pending, Started, Exists, Passing,
      OccupiesConnector, PhysicallyActive, SessionState
<1> QED
  BY <1>2, <1>3, <1>4 DEF Consistent

(* Every step keeps all rows consistent.                                   *)
LEMMA ConsistentStep == Consistent /\ [Next]_vars => Consistent'
<1> SUFFICES ASSUME Typed, JobsBounded, CommandRows, SessionRows, [Next]_vars
             PROVE  Consistent'
  BY DEF Consistent
<1>1. [Sessions!Next]_<<state, tx, reserved>>
  BY SessionStep
<1>2. SessionsTyped' /\ CommandsTyped'
  BY SessionsTypedStep, CommandsTypedStep DEF Typed
<1>3. JobsTyped' /\ JobsBounded'
  BY JobsBoundedStep
<1>4. CommandRows'
  BY <1>1, CommandRowsStep
<1>5. SessionRows'
  BY <1>1, SessionRowsStep DEF Typed
<1>6. ConnectorTyped' /\ RecordsTyped' /\ OthersTyped'
  BY ConnectorTypedStep, RecordsTypedStep, OthersTypedStep
  DEF Typed, RowsTyped, ConnectorTyped, RecordsTyped, OthersTyped
<1>7. (reserved \subseteq Session)'
  <2>1. reserved \subseteq Session
    BY DEF Typed, RowsTyped
  <2> QED
    BY <1>1, <2>1, CommandParts
    DEF Sessions!Next, Sessions!Accept, Sessions!GiveUp, Sessions!Begin,
        Sessions!Continue, Sessions!End
<1>8. RowsTyped'
  BY <1>6, <1>7 DEF RowsTyped, ConnectorTyped, RecordsTyped, OthersTyped
<1> QED
  BY <1>2, <1>3, <1>4, <1>5, <1>8 DEF Consistent, Typed

(* Sessions, commands, jobs and reservation stay consistent.               *)
THEOREM AlwaysConsistent == Spec => []Consistent
  BY ConsistentInit, ConsistentStep, PTL DEF Spec

(* Every variable holds a value its column or enum can hold, and no queue  *)
(* holds more messages of a command than were accepted.                    *)
THEOREM TypeCorrect == Spec => []TypeOK
<1>1. Consistent => TypeOK
  BY TypedSuffices DEF Consistent
<1> QED
  BY <1>1, AlwaysConsistent, PTL

(* No physical transaction is billed to two sessions.                      *)
THEOREM TransactionHasOneSession == Spec => []OneSessionPerTx
<1>1. Consistent => OneSessionPerTx
  BY DEF Consistent, SessionRows
<1> QED
  BY <1>1, AlwaysConsistent, PTL

(* Evidence alone makes a session physical, and nothing fails, expires or  *)
(* cancels it afterwards.                                                  *)
THEOREM StartedAreFinalized == Spec => []StartedIffPhysical
<1>1. Consistent => StartedIffPhysical
  BY DEF Consistent, SessionRows
<1> QED
  BY <1>1, AlwaysConsistent, PTL

(* Every way out of waiting to start closes the reservation.               *)
THEOREM ReservationsEnd == Spec => []ReservedIffPending
<1>1. Consistent => ReservedIffPending
  BY DEF Consistent, SessionRows
<1> QED
  BY <1>1, AlwaysConsistent, PTL

(* Charging implements ConnectorSessions.                                  *)
THEOREM ImplementsConnectorSessions == Spec => SessionsSpec
<1>1. Init => Sessions!Init
  BY DEF Init, Sessions!Init, Session, Sessions!Session
<1>2. Consistent /\ [Next]_vars => [Sessions!Next]_<<state, tx, reserved>>
  BY SessionStep DEF Consistent
<1>3. Consistent /\ [Next]_vars => [Sessions!Next]_(Sessions!sessionsVars)
  BY <1>2 DEF Sessions!sessionsVars
<1> QED
  BY <1>1, <1>3, AlwaysConsistent, PTL DEF Spec, SessionsSpec, Sessions!Spec

(* A session that is over is never reopened by a step.                     *)
LEMMA TerminalStep ==
  ASSUME Consistent, [Next]_vars, NEW s \in Session, state[s] \in Terminal
  PROVE  state'[s] = state[s]
<1>1. [Sessions!Next]_<<state, tx, reserved>>
  BY SessionStep DEF Consistent
<1>2. None \notin Terminal
  BY Constants DEF Terminal, SessionState
<1> QED
  BY <1>1, <1>2
  DEF Consistent, Typed, SessionsTyped, Terminal, Sessions!Next,
      Sessions!Accept, Sessions!GiveUp, Sessions!Begin, Sessions!Continue,
      Sessions!End, Sessions!Become, Sessions!PhysicallyActive

(* No command outcome, evidence, expiry or review reopens a session that   *)
(* is over.                                                                *)
THEOREM TerminalIsFinal == Spec => TerminalStays
<1>1. Consistent /\ [Next]_vars
        => [\A s \in Session : state[s] \in Terminal
                                 => state'[s] = state[s]]_vars
  BY TerminalStep
<1> QED
  BY <1>1, AlwaysConsistent, PTL DEF Spec, TerminalStays

(* No job, scheduler run or driver overwrites an answer.                   *)
THEOREM AnswersAreFinal == Spec => CommandsMoveLegally
<1>1. Consistent /\ [Next]_vars
        => [\A c \in Command :
              cmd[c] # None => CommandMay(cmd[c], cmd'[c])]_vars
  <2> SUFFICES ASSUME Consistent, [Next]_vars, NEW c \in Command, cmd[c] # None
               PROVE  CommandMay(cmd[c], cmd'[c])
    OBVIOUS
  <2>1. CommandMoves(c)
    BY CommandsMove DEF Consistent
  <2> QED
    BY <2>1
    DEF CommandMoves, CommandMay, CommandNext, CommandTerminal, CommandState
<1> QED
  BY <1>1, AlwaysConsistent, PTL DEF Spec, CommandsMoveLegally

(* A step leaves the finalized versions of a session as they are.          *)
LEMMA FinalizedStep ==
  ASSUME Consistent, [Next]_vars, NEW s \in Session, NEW i \in Finalized(s)
  PROVE  i \in DOMAIN records'[s] /\ records'[s][i] = records[s][i]
<1>1. RecordsTyped
  BY DEF Consistent, Typed, RowsTyped, RecordsTyped
<1>2. i \in DOMAIN records[s]
  BY DEF Finalized
<1>3. ASSUME NEW other \in Session, NEW record \in Record,
             records' = [records EXCEPT ![other] = WithRecord(other, record)]
      PROVE  i \in DOMAIN records'[s] /\ records'[s][i] = records[s][i]
  <2>1. CASE other # s
    BY <1>1, <1>2, <1>3, <2>1 DEF RecordsTyped
  <2>2. CASE other = s
    <3> DEFINE n == Len(records[s])
               m == IF n = 0 \/ n \in Finalized(s) THEN n + 1 ELSE n
               versions == WithRecord(s, record)
    <3>1. /\ versions \in Seq(Record) /\ Len(versions) = m
          /\ \A j \in 1..n : j # m => versions[j] = records[s][j]
      BY <1>1, WithRecordIs
    <3>2. records[s] \in Seq(Record) /\ n \in Nat /\ i \in 1..n
      BY <1>1, <1>2 DEF RecordsTyped
    <3>3. i # m /\ i <= m
      BY <3>2
    <3>4. records'[s] = versions
      BY <1>1, <1>3, <2>2 DEF RecordsTyped
    <3> QED
      BY <3>1, <3>2, <3>3, <3>4
  <2> QED
    BY <2>1, <2>2
<1>4. CASE UNCHANGED records
  BY <1>2, <1>4
<1>5. ASSUME NEW other \in Session, ReviewRecord(other)
      PROVE  i \in DOMAIN records'[s] /\ records'[s][i] = records[s][i]
  BY <1>3, <1>5, RecordsWritten DEF ReviewRecord
<1>6. ASSUME NEW other \in Session, NEW outcome \in Decision,
             NEW evidence \in SUBSET (Event \cup {Adjusted}),
             FinalizeRecord(other, outcome, evidence)
      PROVE  i \in DOMAIN records'[s] /\ records'[s][i] = records[s][i]
  BY <1>3, <1>6, RecordsWritten DEF FinalizeRecord
<1> QED
  BY <1>4, <1>5, <1>6, RecordSteps DEF Consistent

(* Later generations append to a finalized record and never edit it.       *)
THEOREM FinalizedAreFinal == Spec => FinalizedStays
<1>1. Consistent /\ [Next]_vars
        => [\A s \in Session : \A i \in Finalized(s) :
              i \in DOMAIN records'[s] /\ records'[s][i] = records[s][i]]_vars
  BY FinalizedStep
<1> QED
  BY <1>1, AlwaysConsistent, PTL DEF Spec, FinalizedStays

-----------------------------------------------------------------------------
(* What the outcome of a command tells of its session.                     *)

(* A stop remembers the state its session had: one that was charging.      *)
ResumeKnown ==
  \A c \in StopCommand :
    cmd[c] # None => resume[c] \in PhysicallyActive \ {"stopping"}

(* A driver's start is given up when the charger rejected it, or when it   *)
(* was not dispatched and no longer can be.                                *)
StartSettled ==
  \A r \in CustomerRequest :
    LET c == <<r, "start">> IN
    state[r] \in {"failed", "expired"} =>
      \/ cmd[c] = "rejected"
      \/ c \notin sent /\ (cmd[c] \in CommandTerminal \/ c \in due)

Accounted ==
  ResumeKnown /\ ExpiredNeverSent /\ RejectedStopResumes /\ StartSettled

(* A command is dispatched before its deadline only, a deadline stays      *)
(* passed, and a rejection is always applied.                              *)
LEMMA CommandFacts ==
  ASSUME Consistent, [Next]_vars, NEW c \in Command
  PROVE  /\ c \in sent => c \in sent'
         /\ c \in sent' /\ c \notin sent
              => /\ cmd'[c] = "dispatched" /\ cmd[c] \in {"requested", "dispatched"}
                 /\ c \notin due
         /\ c \in due => c \in due'
         /\ cmd'[c] = "rejected" /\ cmd[c] # "rejected" => ApplyOutcome(c, "rejected")
<1> USE DEF Consistent, Typed, CommandsTyped, CommandState
<1> DEFINE Facts(d) ==
         /\ d \in sent => d \in sent'
         /\ d \in sent' /\ d \notin sent
              => /\ cmd'[d] = "dispatched" /\ cmd[d] \in {"requested", "dispatched"}
                 /\ d \notin due
         /\ d \in due => d \in due'
         /\ cmd'[d] = "rejected" /\ cmd[d] # "rejected" => ApplyOutcome(d, "rejected")
<1>1. ASSUME NEW r \in Request, RemoteStart(r) \/ WithdrawStart(r) PROVE Facts(c)
  BY <1>1, CommandParts DEF RemoteStart, WithdrawStart
<1>2. ASSUME NEW d \in StopCommand, RemoteStop(d) PROVE Facts(c)
  BY <1>2, CommandParts DEF RemoteStop
<1>3. ASSUME NEW d \in Command, RepeatRequest(d) \/ DeadlinePasses(d)
                               \/ JobApply(d) \/ WorkerDies(d)
      PROVE  Facts(c)
  BY <1>3 DEF RepeatRequest, DeadlinePasses, JobApply, WorkerDies, commandVars
<1>4. ASSUME NEW d \in Command, ExpireCommand(d) PROVE Facts(c)
  BY <1>4 DEF ExpireCommand, Settles, ExpiredAs
<1>5. ASSUME NEW d \in Command, JobBegin(d) PROVE Facts(c)
  BY <1>5 DEF JobBegin
<1>6. ASSUME NEW d \in Command, NEW outcome \in GatewayOutcome,
             JobOutcome(d, outcome)
      PROVE  Facts(c)
  <2>1. UNCHANGED <<sent, due>>
    BY <1>6 DEF JobOutcome
  <2>2. ASSUME cmd'[c] = "rejected", cmd[c] # "rejected"
        PROVE  ApplyOutcome(c, "rejected")
    BY <1>6, <2>2 DEF JobOutcome, Settles
  <2> QED
    BY <2>1, <2>2
<1>7. CASE UNCHANGED <<commandVars, due>>
  BY <1>7 DEF commandVars
<1> QED
  BY <1>1, <1>2, <1>3, <1>4, <1>5, <1>6, <1>7, CommandSteps

(* A command reported expired stays unsent.                                *)
LEMMA ExpiredStep ==
  ASSUME Consistent, ExpiredNeverSent, [Next]_vars
  PROVE  ExpiredNeverSent'
<1> SUFFICES ASSUME NEW c \in sent', cmd'[c] = "expired" PROVE FALSE
  BY DEF ExpiredNeverSent
<1>1. c \in Command
  BY ConsistentStep DEF Consistent, Typed, CommandsTyped
<1>2. CommandMoves(c)
  BY <1>1, CommandsMove DEF Consistent
<1>3. c \in sent
  BY <1>1, CommandFacts
<1>4. cmd[c] \in {"expired", "requested"}
  BY <1>2 DEF CommandMoves
<1> QED
  BY <1>1, <1>3, <1>4 DEF ExpiredNeverSent, Consistent, CommandRows

(* The state a stop resumes is written with the command and kept.          *)
LEMMA ResumeStep ==
  ASSUME Consistent, ResumeKnown, [Next]_vars
  PROVE  ResumeKnown'
<1> SUFFICES ASSUME NEW c \in StopCommand, cmd'[c] # None
             PROVE  resume'[c] \in PhysicallyActive \ {"stopping"}
  BY DEF ResumeKnown
<1>1. c \in Command
  BY CommandParts
<1>2. CASE resume' = resume /\ cmd[c] # None
  BY <1>2 DEF ResumeKnown
<1>3. ASSUME NEW d \in StopCommand, RemoteStop(d)
      PROVE  resume'[c] \in PhysicallyActive \ {"stopping"}
  <2>1. d[1] \in Session
    BY CommandParts
  <2>2. state[d[1]] \in PhysicallyActive \ {"stopping"}
    BY <1>3, <2>1
    DEF RemoteStop, StoppableTransaction, Stoppable, Consistent, SessionRows,
        StartedIffPhysical, OccupiesConnector, PhysicallyActive
  <2>3. CASE c = d
    BY <1>3, <2>2, <2>3 DEF RemoteStop, Consistent, Typed, CommandsTyped
  <2>4. CASE c # d
    BY <1>1, <1>3, <2>4, CommandParts
    DEF RemoteStop, Consistent, Typed, CommandsTyped, ResumeKnown
  <2> QED
    BY <2>3, <2>4
<1>4. ASSUME NEW r \in Request, RemoteStart(r) \/ WithdrawStart(r)
      PROVE  resume' = resume /\ cmd[c] # None
  <2>1. c # <<r, "start">>
    BY CommandParts
  <2> QED
    BY <1>1, <1>4, <2>1
    DEF RemoteStart, WithdrawStart, Consistent, Typed, CommandsTyped
<1>5. ASSUME NEW d \in Command,
             RepeatRequest(d) \/ DeadlinePasses(d) \/ JobApply(d) \/ WorkerDies(d)
      PROVE  resume' = resume /\ cmd[c] # None
  BY <1>5 DEF RepeatRequest, DeadlinePasses, JobApply, WorkerDies, commandVars
<1>6. ASSUME NEW d \in Command,
             \/ ExpireCommand(d) \/ JobBegin(d)
             \/ \E outcome \in GatewayOutcome : JobOutcome(d, outcome)
      PROVE  resume' = resume /\ cmd[c] # None
  <2>1. resume' = resume
    BY <1>6 DEF ExpireCommand, JobBegin, JobOutcome
  <2>2. CommandMoves(c)
    BY <1>1, CommandsMove DEF Consistent
  <2>3. cmd[c] = None => cmd'[c] # "requested"
    BY <1>1, <1>6, Constants
    DEF ExpireCommand, Settles, ExpiredAs, JobBegin, JobOutcome, GatewayOutcome,
        Consistent, Typed, CommandsTyped, CommandState
  <2> QED
    BY <2>1, <2>2, <2>3, Constants DEF CommandMoves, CommandState
<1>7. CASE UNCHANGED <<commandVars, due>>
  BY <1>2, <1>7 DEF commandVars
<1> QED
  BY <1>2, <1>3, <1>4, <1>5, <1>6, <1>7, CommandSteps

(* What an outcome does to a session that ends up stopping or given up.    *)
LEMMA OutcomeMoves ==
  ASSUME Consistent, ResumeKnown, NEW c \in Command, cmd[c] # None, NEW outcome,
         ApplyOutcome(c, outcome), NEW s \in Session, state'[s] # state[s]
  PROVE  /\ s = c[1]
         /\ \/ /\ c \in StartCommand /\ FailsSession(c, outcome)
               /\ state'[s] = "failed"
            \/ /\ c \in StopCommand
               /\ state'[s] \in PhysicallyActive \ {"stopping"}
<1>1. c[1] \in Session
  BY CommandParts
<1>2. state \in [Session -> SessionState \cup {None}]
  BY DEF Consistent, Typed, SessionsTyped
<1>3. CASE FailsSession(c, outcome) /\ Become(c[1], "failed")
  BY <1>1, <1>2, <1>3 DEF Become, FailsSession
<1>4. CASE ResumesSession(c, outcome) /\ Become(c[1], resume[c])
  BY <1>1, <1>2, <1>4 DEF Become, ResumesSession, ResumeKnown
<1> QED
  BY <1>3, <1>4 DEF ApplyOutcome

(* The steps that may change the state of a session at all, with the state *)
(* they give it.                                                           *)
LEMMA StateMoves ==
  ASSUME Consistent, [Next]_vars, NEW s \in Session, state'[s] # state[s]
  PROVE  \/ state'[s] \in {"starting", "cancelled"} \cup (PhysicallyActive \ {"stopping"})
         \/ \E d \in StopCommand :
              RemoteStop(d) /\ s = d[1] /\ state'[s] = "stopping"
         \/ s \in Request /\ ExpireSession(s) /\ state'[s] = "expired"
         \/ \E c \in Command, outcome \in CommandTerminal :
              /\ cmd[c] # None /\ ApplyOutcome(c, outcome)
              /\ \/ cmd' = [cmd EXCEPT ![c] = outcome]
                    /\ (outcome = "expired" => cmd[c] = "requested")
                 \/ UNCHANGED cmd /\ outcome = cmd[c]
         \/ ReviewRecord(s) /\ state'[s] = "review_required"
         \/ state'[s] = "completed"
            /\ \E outcome \in Decision, evidence \in SUBSET (Event \cup {Adjusted}) :
                 FinalizeRecord(s, outcome, evidence)
<1> DEFINE Moves ==
         \/ state'[s] \in {"starting", "cancelled"} \cup (PhysicallyActive \ {"stopping"})
         \/ \E d \in StopCommand :
              RemoteStop(d) /\ s = d[1] /\ state'[s] = "stopping"
         \/ s \in Request /\ ExpireSession(s) /\ state'[s] = "expired"
         \/ \E c \in Command, outcome \in CommandTerminal :
              /\ cmd[c] # None /\ ApplyOutcome(c, outcome)
              /\ \/ cmd' = [cmd EXCEPT ![c] = outcome]
                    /\ (outcome = "expired" => cmd[c] = "requested")
                 \/ UNCHANGED cmd /\ outcome = cmd[c]
         \/ ReviewRecord(s) /\ state'[s] = "review_required"
         \/ state'[s] = "completed"
            /\ \E outcome \in Decision, evidence \in SUBSET (Event \cup {Adjusted}) :
                 FinalizeRecord(s, outcome, evidence)
<1>1. state \in [Session -> SessionState \cup {None}]
  BY DEF Consistent, Typed, SessionsTyped
<1>2. None \notin CommandState /\ CommandTerminal \subseteq CommandState
  BY Constants DEF CommandTerminal
<1>3. ASSUME NEW other \in Session, NEW next, Become(other, next)
      PROVE  other = s /\ state'[s] = next
  BY <1>1, <1>3 DEF Become
<1>4. ASSUME NEW r \in Request, RemoteStart(r) PROVE Moves
  BY <1>3, <1>4, CommandParts DEF RemoteStart
<1>5. ASSUME NEW other \in Session, CancelSession(other) PROVE Moves
  BY <1>3, <1>5 DEF CancelSession
<1>6. ASSUME NEW d \in StopCommand, RemoteStop(d) PROVE Moves
  BY <1>3, <1>6, CommandParts DEF RemoteStop
<1>7. ASSUME NEW r \in Request, ExpireSession(r) PROVE Moves
  BY <1>3, <1>7, CommandParts DEF ExpireSession
<1>8. ASSUME NEW c \in Command, ExpireCommand(c) PROVE Moves
  <2>1. ApplyOutcome(c, ExpiredAs(c)) /\ cmd' = [cmd EXCEPT ![c] = ExpiredAs(c)]
        /\ cmd[c] \in {"requested", "dispatched"}
    BY <1>8 DEF ExpireCommand, Settles, Expirable
  <2>2. ExpiredAs(c) \in CommandTerminal
        /\ (ExpiredAs(c) = "expired" => cmd[c] = "requested")
    BY DEF ExpiredAs, CommandTerminal, CommandState
  <2>3. cmd[c] # None
    BY <2>1, Constants DEF CommandState
  <2> QED
    BY <2>1, <2>2, <2>3
<1>9. ASSUME NEW c \in Command, JobApply(c) PROVE Moves
  <2>1. cmd[c] \in CommandTerminal
    BY <1>9 DEF JobApply, Consistent, CommandRows
  <2>2. ApplyOutcome(c, cmd[c]) /\ UNCHANGED cmd
    BY <1>9 DEF JobApply, sessionVars
  <2> QED
    BY <1>2, <2>1, <2>2
<1>10. ASSUME NEW c \in Command, NEW outcome \in GatewayOutcome,
              JobOutcome(c, outcome)
       PROVE  Moves
  <2>1. PICK answer \in {outcome, "delivery_unknown"} : Settles(c, answer)
    BY <1>10 DEF JobOutcome, sessionVars
  <2>2. answer \in CommandTerminal /\ answer # "expired"
    BY DEF GatewayOutcome, CommandTerminal, CommandState
  <2>3. cmd[c] # None
    BY <1>10, Constants
    DEF JobOutcome, Consistent, CommandRows, Typed, JobsTyped
  <2> QED
    BY <2>1, <2>2, <2>3 DEF Settles
<1>11. ASSUME NEW e \in Event, StartObserved(e) PROVE Moves
  <2>1. PICK other \in SessionForStart(e.tx) : Become(other, "charging")
    BY <1>11 DEF StartObserved, Quarantined, sessionVars
  <2>2. other \in Session
    BY <2>1, Candidates, EventParts
  <2> QED
    BY <1>3, <2>1, <2>2 DEF PhysicallyActive
<1>12. ASSUME NEW e \in Event, TransactionUpdated(e) PROVE Moves
  <2>1. PICK other \in FindOrReconstruct(e.tx), target \in UpdateTarget(e) :
          Become(other, IF SessionMay(StateOrNew(other), target)
                        THEN target ELSE state[other])
    BY <1>12 DEF TransactionUpdated, Quarantined, sessionVars
  <2>2. other \in Session
    BY <2>1, Candidates, EventParts
  <2>3. target \in PhysicallyActive \ {"stopping"}
    BY DEF UpdateTarget, PhysicallyActive
  <2> QED
    BY <1>3, <2>1, <2>2, <2>3
<1>13. ASSUME NEW e \in Event, EndObserved(e) PROVE Moves
  <2>1. PICK other \in SessionsOf(e.tx) :
          /\ Measures(other, e)
          /\ \/ ReviewRecord(other)
             \/ FinalizeRecord(other, "complete", measured'[other])
    BY <1>13 DEF EndObserved, Generate, Quarantined, sessionVars
  <2>2. other \in Session
    BY DEF SessionsOf
  <2>3. measured'[other] \in SUBSET (Event \cup {Adjusted})
    BY <2>1, <2>2, MeasureTyped DEF MayMeasure, Consistent, Typed, SessionsTyped
  <2>4. "complete" \in Decision
    BY DEF Decision
  <2>5. CASE ReviewRecord(other)
    BY <1>3, <2>2, <2>5 DEF ReviewRecord
  <2>6. CASE FinalizeRecord(other, "complete", measured'[other])
    <3>1. other = s /\ state'[s] = "completed"
      BY <1>3, <2>2, <2>6 DEF FinalizeRecord
    <3> QED
      BY <2>3, <2>4, <2>6, <3>1
  <2> QED
    BY <2>1, <2>5, <2>6
<1>14. ASSUME NEW w \in Reviewer, GenerateReviewed(w) PROVE Moves
  <2> DEFINE other == reviewing[w].session
             decision == reviewing[w].decision
  <2>1. FinalizeRecord(other, decision, measured[other])
    BY <1>14 DEF GenerateReviewed
  <2>2. other \in Session /\ decision \in Decision
    BY <1>14 DEF GenerateReviewed, Consistent, Typed, RowsTyped
  <2>3. measured[other] \in SUBSET (Event \cup {Adjusted})
    BY <2>2 DEF Consistent, Typed, SessionsTyped
  <2>4. other = s /\ state'[s] = "completed"
    BY <1>3, <2>1, <2>2 DEF FinalizeRecord
  <2> QED
    BY <2>1, <2>2, <2>3, <2>4
<1>15. ASSUME NEW c \in Command,
              RepeatRequest(c) \/ DeadlinePasses(c) \/ JobBegin(c) \/ WorkerDies(c)
       PROVE  UNCHANGED state
  BY <1>15 DEF RepeatRequest, DeadlinePasses, JobBegin, WorkerDies, sessionVars
<1>16. ASSUME NEW e \in Event, MeterObserved(e) \/ ConsumerFails(e)
       PROVE  UNCHANGED state
  BY <1>16 DEF MeterObserved, ConsumerFails, Quarantined, sessionVars
<1>17. ASSUME NEW w \in Reviewer,
              \/ \E other \in Session, decision \in Decision, adjusts \in BOOLEAN :
                   ResolveReview(w, other, decision, adjusts)
              \/ ReviewerDies(w)
       PROVE  UNCHANGED state
  BY <1>17 DEF ResolveReview, ReviewerDies, sessionVars
<1>18. ASSUME NEW t \in Tx, BeginTx(t) \/ EndTx(t) PROVE UNCHANGED state
  BY <1>18 DEF BeginTx, EndTx, sessionVars
<1>19. ASSUME NEW status, StatusReported(status) PROVE UNCHANGED state
  BY <1>19 DEF StatusReported, sessionVars
<1>20. CASE UNCHANGED vars
  BY <1>20 DEF vars, sessionVars
<1>21. ASSUME NEW r \in Request, WithdrawStart(r) PROVE Moves
  BY <1>5, <1>21, CommandParts DEF WithdrawStart
<1>22. ASSUME NEW other \in Session, OperatorCancel(other) PROVE Moves
  BY <1>5, <1>22 DEF OperatorCancel
<1>23. CASE Progress
  BY <1>7, <1>8, <1>9, <1>10, <1>11, <1>12, <1>13, <1>14, <1>15, <1>16, <1>17,
     <1>18, <1>22, <1>23 DEF Progress, Consume
<1> QED
  BY <1>4, <1>6, <1>19, <1>20, <1>21, <1>23, Constants DEF Next

(* A stop that is rejected resumes its session.                            *)
LEMMA RejectionStep ==
  ASSUME Consistent, ResumeKnown, RejectedStopResumes, [Next]_vars
  PROVE  RejectedStopResumes'
<1> SUFFICES ASSUME NEW s \in Session, state'[s] = "stopping"
             PROVE  \E k \in StopKey : cmd'[<<s, k>>] \notin {None, "rejected"}
  BY DEF RejectedStopResumes
<1>1. \A k \in StopKey : <<s, k>> \in StopCommand /\ <<s, k>> \in Command
                         /\ <<s, k>> \notin StartCommand
  BY CommandParts
<1>2. None \notin CommandState
  BY Constants
<1>3. CASE state[s] = "stopping"
  <2>1. PICK k \in StopKey : cmd[<<s, k>>] \notin {None, "rejected"}
    BY <1>3 DEF RejectedStopResumes
  <2> DEFINE c == <<s, k>>
  <2>2. c \in StopCommand /\ c \in Command /\ c \notin StartCommand
    BY <1>1
  <2>3. CASE cmd'[c] = "rejected"
    <3>1. ApplyOutcome(c, "rejected")
      BY <2>1, <2>2, <2>3, CommandFacts
    <3>2. ResumesSession(c, "rejected")
      <4>1. resume[c] \in PhysicallyActive \ {"stopping"}
        BY <2>1, <2>2 DEF ResumeKnown
      <4>2. c[1] = s
        OBVIOUS
      <4> QED
        BY <1>3, <2>2, <4>1, <4>2
        DEF ResumesSession, SessionMay, SessionNext, PhysicallyActive
    <3>3. Become(s, resume[c]) /\ resume[c] # "stopping"
      BY <2>1, <2>2, <3>1, <3>2 DEF ApplyOutcome, FailsSession, ResumeKnown
    <3> QED
      BY <3>3 DEF Become, Consistent, Typed, SessionsTyped
  <2>4. cmd'[c] # None
    BY <1>2, <2>1, <2>2, CommandsMove
    DEF Consistent, CommandMoves, CommandTerminal, CommandState
  <2> QED
    BY <2>3, <2>4
<1>4. CASE state[s] # "stopping"
  <2>1. PICK d \in StopCommand : RemoteStop(d) /\ s = d[1]
    <3>1. ASSUME NEW c \in Command, NEW outcome, cmd[c] # None,
                 ApplyOutcome(c, outcome)
          PROVE  FALSE
      BY <1>4, <3>1, OutcomeMoves
    <3>2. ~ReviewRecord(s)
      BY <1>4 DEF ReviewRecord, Become, Consistent, Typed, SessionsTyped
    <3> QED
      BY <1>4, <3>1, <3>2, StateMoves DEF PhysicallyActive
  <2>2. PICK k \in StopKey : d = <<s, k>>
    BY <2>1 DEF StopCommand
  <2>3. cmd'[d] = "requested"
    BY <2>1, CommandParts DEF RemoteStop, Consistent, Typed, CommandsTyped
  <2> QED
    BY <1>2, <2>2, <2>3 DEF CommandState
<1> QED
  BY <1>3, <1>4

(* A driver's start that may have reached the charger is kept.             *)
LEMMA SettledStep ==
  ASSUME Consistent, ResumeKnown, ExpiredNeverSent, StartSettled, [Next]_vars
  PROVE  StartSettled'
<1> SUFFICES ASSUME NEW r \in CustomerRequest, state'[r] \in {"failed", "expired"}
             PROVE  \/ cmd'[<<r, "start">>] = "rejected"
                    \/ /\ <<r, "start">> \notin sent'
                       /\ \/ cmd'[<<r, "start">>] \in CommandTerminal
                          \/ <<r, "start">> \in due'
  BY DEF StartSettled
<1> DEFINE c == <<r, "start">>
<1>1. /\ r \in Request /\ r \in Session /\ c \in StartCommand /\ c \in Command
      /\ c \notin StopCommand /\ c[1] = r
  BY Constants, CommandParts
<1>2. CommandMoves(c)
  BY <1>1, CommandsMove DEF Consistent
<1>3. /\ "rejected" \in CommandTerminal
      /\ "requested" \notin CommandTerminal /\ "dispatched" \notin CommandTerminal
      /\ None \notin CommandTerminal
  BY Constants DEF CommandTerminal, CommandState
<1>4. cmd[c] \in CommandTerminal => cmd'[c] = cmd[c]
  BY <1>2, <1>3 DEF CommandMoves
<1>5. c \notin sent /\ (cmd[c] \in CommandTerminal \/ c \in due) => c \notin sent'
  BY <1>1, <1>3, CommandFacts
<1>6. c \in due => c \in due'
  BY <1>1, CommandFacts
<1>7. CASE state'[r] = state[r]
  <2>1. \/ cmd[c] = "rejected"
        \/ c \notin sent /\ (cmd[c] \in CommandTerminal \/ c \in due)
    BY <1>7 DEF StartSettled
  <2> QED
    BY <1>3, <1>4, <1>5, <1>6, <2>1
<1>8. CASE state'[r] # state[r]
  <2>1. CASE ExpireSession(r) /\ state'[r] = "expired"
    <3>1. c \in due /\ UNCHANGED <<due, sent, cmd>>
      BY <2>1 DEF ExpireSession, OverdueStart, commandVars
    <3>2. c \notin sent \/ cmd[c] = "rejected"
      <4>1. ~UNCHANGED state
        BY <1>8
      <4> QED
        BY <2>1, <4>1 DEF ExpireSession
    <3> QED
      BY <3>1, <3>2
  <2>2. ASSUME NEW d \in Command, NEW outcome \in CommandTerminal, cmd[d] # None,
               ApplyOutcome(d, outcome),
               \/ cmd' = [cmd EXCEPT ![d] = outcome]
                  /\ (outcome = "expired" => cmd[d] = "requested")
               \/ UNCHANGED cmd /\ outcome = cmd[d]
        PROVE  \/ cmd'[c] = "rejected"
               \/ c \notin sent' /\ (cmd'[c] \in CommandTerminal \/ c \in due')
    <3>1. /\ r = d[1] /\ d \in StartCommand /\ FailsSession(d, outcome)
      BY <1>1, <1>8, <2>2, OutcomeMoves DEF PhysicallyActive
    <3>2. d = c
      BY <3>1, CommandParts
    <3>3. outcome \in {"rejected", "expired"}
      BY <1>1, <3>1, <3>2
      DEF FailsSession, Undelivered, CommandTerminal, CommandState
    <3>4. cmd'[c] = outcome
      BY <1>1, <2>2, <3>2 DEF Consistent, Typed, CommandsTyped
    <3>5. CASE outcome = "expired"
      <4>1. c \notin sent'
        <5>1. ExpiredNeverSent'
          BY ExpiredStep
        <5> QED
          BY <3>4, <3>5, <5>1 DEF ExpiredNeverSent
      <4> QED
        BY <3>4, <4>1
    <3> QED
      BY <3>3, <3>4, <3>5
  <2>3. ASSUME NEW d \in StopCommand, RemoteStop(d), state'[r] = "stopping"
        PROVE  FALSE
    BY <2>3
  <2> QED
    BY <1>1, <1>8, <2>1, <2>2, StateMoves DEF PhysicallyActive
<1> QED
  BY <1>7, <1>8

(* Sessions and the outcomes of their commands always agree.               *)
THEOREM AlwaysAccounted == Spec => []Accounted
<1>1. Init => Accounted
  <2> SUFFICES ASSUME Init PROVE Accounted
    OBVIOUS
  <2>1. None \notin SessionState
    BY Constants
  <2>2. ResumeKnown /\ ExpiredNeverSent
    BY CommandParts DEF Init, ResumeKnown, ExpiredNeverSent
  <2>3. \A s \in Session : state[s] = None
    BY DEF Init
  <2>4. RejectedStopResumes /\ StartSettled
    BY <2>1, <2>3, CommandParts, Constants
    DEF RejectedStopResumes, StartSettled, SessionState
  <2> QED
    BY <2>2, <2>4 DEF Accounted
<1>2. Consistent /\ Accounted /\ [Next]_vars => Accounted'
  BY ResumeStep, ExpiredStep, RejectionStep, SettledStep DEF Accounted
<1> QED
  BY <1>1, <1>2, AlwaysConsistent, PTL DEF Spec

(* A command the scheduler or a job reports expired was never handed to    *)
(* the gateway.                                                            *)
THEOREM ExpiredAreUnsent == Spec => []ExpiredNeverSent
<1>1. Accounted => ExpiredNeverSent
  BY DEF Accounted
<1> QED
  BY <1>1, AlwaysAccounted, PTL

(* A stop the charger rejected never leaves its session stopping.          *)
THEOREM RejectedStopsResume == Spec => []RejectedStopResumes
<1>1. Accounted => RejectedStopResumes
  BY DEF Accounted
<1> QED
  BY <1>1, AlwaysAccounted, PTL

(* A driver's start that may have reached the charger never fails or       *)
(* expires its session.                                                    *)
THEOREM UncertainStartsAreKept == Spec => []UncertainStartKept
<1>1. Accounted => UncertainStartKept
  BY DEF Accounted, StartSettled, UncertainStartKept
<1> QED
  BY <1>1, AlwaysAccounted, PTL

-----------------------------------------------------------------------------
(* Records and sessions.                                                   *)

(* A completed session is never put under review again.                    *)
LEMMA CompletedStays ==
  ASSUME Consistent, [Next]_vars, NEW s \in Session,
         state[s] = "completed"
  PROVE  state'[s] = "completed"
<1>1. [Sessions!Next]_<<state, tx, reserved>>
  BY SessionStep DEF Consistent
<1>2. None # "completed"
  BY Constants DEF SessionState
<1> QED
  BY <1>1, <1>2
  DEF Consistent, Typed, SessionsTyped, Sessions!Next,
      Sessions!Accept, Sessions!GiveUp, Sessions!Begin, Sessions!Continue,
      Sessions!End, Sessions!Become, Sessions!PhysicallyActive

(* A generation that finalizes leaves a finalized record, one that opens a *)
(* review leaves none where there was none.                                *)
LEMMA GenerationFinalizes ==
  ASSUME Consistent, NEW s \in Session, NEW record \in Record,
         records' = [records EXCEPT ![s] = WithRecord(s, record)]
  PROVE  /\ record.state = "finalized" => Finalized(s)' # {}
         /\ record.state # "finalized" /\ Finalized(s) = {} => Finalized(s)' = {}
         /\ \A other \in Session \ {s} : Finalized(other)' = Finalized(other)
<1> DEFINE n == Len(records[s])
           m == IF n = 0 \/ n \in Finalized(s) THEN n + 1 ELSE n
           versions == WithRecord(s, record)
<1>1. RecordsTyped
  BY DEF Consistent, Typed, RowsTyped, RecordsTyped
<1>2. /\ versions \in Seq(Record) /\ Len(versions) = m /\ m > 0
      /\ versions[m] = record
      /\ \A i \in 1..n : i # m => versions[i] = records[s][i]
  BY <1>1, WithRecordIs
<1>3. records[s] \in Seq(Record) /\ n \in Nat /\ m \in Nat
  BY <1>1 DEF RecordsTyped
<1>4. records'[s] = versions /\ \A other \in Session \ {s} : records'[other] = records[other]
  BY <1>1 DEF RecordsTyped
<1>5. DOMAIN versions = 1..m
  BY <1>2
<1>6. Finalized(s)' = {i \in 1..m : versions[i].state = "finalized"}
  BY <1>4, <1>5 DEF Finalized
<1>7. record.state = "finalized" => m \in Finalized(s)'
  BY <1>2, <1>3, <1>6
<1>8. ASSUME record.state # "finalized", Finalized(s) = {} PROVE Finalized(s)' = {}
  <2>1. ASSUME NEW i \in Finalized(s)' PROVE FALSE
    <3>1. i \in 1..m /\ versions[i].state = "finalized"
      BY <1>6
    <3>2. i # m
      BY <1>2, <1>8, <3>1
    <3>3. i \in 1..n
      BY <1>3, <3>1, <3>2
    <3>4. records[s][i].state = "finalized" /\ i \in DOMAIN records[s]
      BY <1>2, <1>3, <3>1, <3>2, <3>3
    <3> QED
      BY <1>8, <3>4 DEF Finalized
  <2> QED
    BY <2>1
<1>9. \A other \in Session \ {s} : Finalized(other)' = Finalized(other)
  BY <1>4 DEF Finalized
<1> QED
  BY <1>7, <1>8, <1>9

(* A record under review is opened while its session is not completed.     *)
LEMMA ReviewOpened ==
  ASSUME Consistent, [Next]_vars, NEW s \in Session, ReviewRecord(s)
  PROVE  state[s] # "completed" /\ state'[s] = "review_required"
<1>1. state'[s] = "review_required"
  BY DEF ReviewRecord, Become, Consistent, Typed, SessionsTyped
<1> QED
  BY <1>1, CompletedStays

(* Completion and finalization happen together.                            *)
LEMMA CompletedStep ==
  ASSUME Consistent, CompletedIffFinalized, [Next]_vars
  PROVE  CompletedIffFinalized'
<1> SUFFICES ASSUME NEW s \in Session
             PROVE  state'[s] = "completed" <=> Finalized(s)' # {}
  BY DEF CompletedIffFinalized
<1>1. state[s] = "completed" <=> Finalized(s) # {}
  BY DEF CompletedIffFinalized
<1>2. state[s] = "completed" => state'[s] = "completed"
  BY CompletedStays
<1>3. ASSUME NEW outcome \in Decision, NEW evidence \in SUBSET (Event \cup {Adjusted}),
             FinalizeRecord(s, outcome, evidence)
      PROVE  state'[s] = "completed" /\ Finalized(s)' # {}
  <2>1. PICK total \in Total \cup {None} :
          records' = [records EXCEPT ![s] = WithRecord(s,
            [state |-> "finalized", outcome |-> outcome, total |-> total,
             measured |-> evidence])]
    BY <1>3 DEF FinalizeRecord
  <2>2. [state |-> "finalized", outcome |-> outcome, total |-> total,
         measured |-> evidence] \in Record
    BY RecordsWritten
  <2>3. Finalized(s)' # {}
    BY <2>1, <2>2, GenerationFinalizes
  <2>4. state'[s] = "completed"
    BY <1>3 DEF FinalizeRecord, Become, Consistent, Typed, SessionsTyped
  <2> QED
    BY <2>3, <2>4
<1>4. ASSUME ReviewRecord(s)
      PROVE  state'[s] # "completed" /\ Finalized(s)' = {}
  <2>1. state[s] # "completed" /\ state'[s] = "review_required"
    BY <1>4, ReviewOpened
  <2>2. Finalized(s)' = {}
    BY <1>1, <1>4, <2>1, RecordsWritten, GenerationFinalizes DEF ReviewRecord
  <2> QED
    BY <2>1, <2>2
<1>5. CASE \A outcome \in Decision, evidence \in SUBSET (Event \cup {Adjusted}) :
             ~FinalizeRecord(s, outcome, evidence)
  <2>1. CASE ~ReviewRecord(s)
    <3>1. Finalized(s)' = Finalized(s)
      <4>1. CASE UNCHANGED records
        BY <4>1 DEF Finalized
      <4>2. ASSUME NEW other \in Session \ {s}, ReviewRecord(other)
            PROVE  Finalized(s)' = Finalized(s)
        BY <4>2, RecordsWritten, GenerationFinalizes DEF ReviewRecord
      <4>3. ASSUME NEW other \in Session \ {s}, NEW outcome \in Decision,
                   NEW evidence \in SUBSET (Event \cup {Adjusted}),
                   FinalizeRecord(other, outcome, evidence)
            PROVE  Finalized(s)' = Finalized(s)
        BY <4>3, RecordsWritten, GenerationFinalizes DEF FinalizeRecord
      <4> QED
        BY <1>5, <2>1, <4>1, <4>2, <4>3, RecordSteps DEF Consistent
    <3>2. state'[s] = "completed" => state[s] = "completed"
      <4>1. SUFFICES ASSUME state'[s] = "completed", state'[s] # state[s]
                     PROVE  FALSE
        OBVIOUS
      <4>2. ASSUME NEW c \in Command, NEW outcome, cmd[c] # None,
                   ApplyOutcome(c, outcome)
            PROVE  FALSE
        <5>1. resume[c] # "completed" \/ c \notin StopCommand
          BY Constants
          DEF Consistent, Typed, CommandsTyped, Stoppable, SessionState
        <5> QED
          BY <4>1, <4>2, <5>1, CommandParts
          DEF ApplyOutcome, ResumesSession, Become, Consistent, Typed,
              SessionsTyped
      <4> QED
        BY <1>5, <4>1, <4>2, StateMoves DEF PhysicallyActive
    <3> QED
      BY <1>1, <1>2, <3>1, <3>2
  <2> QED
    BY <1>4, <2>1
<1> QED
  BY <1>3, <1>5

(* A session is completed exactly when a finalized record exists for it.   *)
THEOREM CompletedAreFinalized == Spec => []CompletedIffFinalized
<1>1. Init => CompletedIffFinalized
  BY Constants DEF Init, CompletedIffFinalized, Finalized, SessionState
<1> QED
  BY <1>1, CompletedStep, AlwaysConsistent, PTL DEF Spec
=============================================================================
