------------------------------ MODULE Monitors ------------------------------
(***************************************************************************)
(* One monitor: its row and its alert deliveries                           *)
(* (packages/adapters/postgres/src/monitor-repository.ts), the sweep that  *)
(* evaluates it and delivers (apps/worker/src/jobs/monitors.ts), and the   *)
(* operators who edit it meanwhile (packages/dashboarding).                *)
(*                                                                         *)
(* Postgres reads a statement's snapshot first and locks the row later.  A *)
(* save may wait for the lock and is two actions: Observe and SaveEnds,    *)
(* EditBegins and EditEnds.  A claim never waits: it is one action, alone  *)
(* or together with a save that commits inside it.  Instants are numbered  *)
(* by the evaluations that start at them; an alert is its evaluation and   *)
(* its recipient.                                                          *)
(* An operator whose name ends in Bug is a mutant of the next definition.  *)
(***************************************************************************)
EXTENDS Integers, FiniteSets, Sequences

CONSTANTS
    Worker,          \* the worker processes
    Operator,        \* the console requests that edit the monitor, each once
    Question,        \* what may be measured: an analysis with its threshold
    Channel,         \* the recipients it may be announced to
    MaxEvaluations,  \* bound: evaluations claimed
    MaxFaults        \* bound: refused deliveries, failed statements and crashes of
                     \* workers, and leases that lapse while their holder works

ASSUME MonitorsAssumption ==
    /\ IsFiniteSet(Worker) /\ IsFiniteSet(Channel) /\ Question # {}
    /\ MaxEvaluations \in Nat /\ MaxFaults \in Nat

VARIABLES
    row,         \* the row of monitors
    deliveries,  \* the rows of monitor_deliveries
    evaluations, \* the number of the latest evaluation
    job,         \* what each worker's sweep is at: the monitor it claimed, as it
                 \* read it, what it will record, and whether the snapshot of
                 \* its save has the monitor; or the alert and its claimed_at
    edit,        \* where each operator's request is: what it found, its commands,
                 \* what it saves, and the alerts the snapshot of its save has
    heard,       \* the alerts that reached their recipient, by first arrival
    announced,   \* history: the breach was announced and neither recovered nor reset
    repeats,     \* history: announcements of what had been announced already
    staleSaves,  \* history: saves of a copy that missed what was committed
    faults

accountVars == <<announced, repeats, staleSaves>>
historyVars == <<heard, announced, repeats, staleSaves>>
monitorVars == <<row, deliveries, evaluations, job, edit, historyVars, faults>>

Alert == (1..MaxEvaluations) \X Channel
Pending(a) == deliveries[a].status = "pending"

\* One recipient's alerts are delivered in the order (occurred_at, id).
Earlier(a, b) == a[2] = b[2] /\ a[1] < b[1]

Fault == faults < MaxFaults /\ faults' = faults + 1

Idle       == [at |-> "idle"]
Delivering == [at |-> "delivering"]
At(w, step) == job[w].at = step
Becomes(w, j) == job' = [job EXCEPT ![w] = j]
GoesTo(w, step) == job' = [job EXCEPT ![w].at = step]

Unsent == [status |-> "none", attempts |-> 0, claim |-> "free"]

\* A monitor just created, or disabled before it was ever evaluated.
MonitorInit ==
    /\ \E q \in Question, cs \in SUBSET Channel, on \in BOOLEAN :
          row = [exists |-> TRUE, enabled |-> on, breaching |-> FALSE, question |-> q,
                 channels |-> cs, lastAttempt |-> 0, claim |-> "free"]
    /\ deliveries = [a \in Alert |-> Unsent]
    /\ evaluations = 0
    /\ job = [w \in Worker |-> Idle]
    /\ edit = [o \in Operator |-> [at |-> "idle"]]
    /\ heard = <<>> /\ announced = FALSE /\ repeats = 0 /\ staleSaves = 0
    /\ faults = 0

-----------------------------------------------------------------------------
(* The sweep evaluates what is due. *)

EvaluationDue == row.exists /\ row.enabled /\ row.claim # "held" /\ evaluations < MaxEvaluations

Claimed(m) == [m EXCEPT !.lastAttempt = evaluations + 1, !.claim = "held"]

Claims(m, isFresh) ==
    [at |-> "observing", copy |-> Claimed(m), decision |-> "silent", saw |-> TRUE,
     fresh |-> isFresh]

ClaimEvaluation(w) ==
    /\ At(w, "idle") /\ EvaluationDue
    /\ evaluations' = evaluations + 1
    /\ row' = Claimed(row)
    /\ Becomes(w, Claims(row, TRUE))
    /\ UNCHANGED <<deliveries, edit, historyVars, faults>>

SettingsOf(m) == <<m.enabled, m.question, m.channels>>
View(m) == <<m.breaching, SettingsOf(m)>>

\* A claim's SELECT reads the statement's snapshot and its UPDATE the latest row:
\* what commits between the two is claimed and not read.
ClaimMisses(w, committed) ==
    /\ At(w, "idle") /\ EvaluationDue /\ committed.enabled
    /\ evaluations' = evaluations + 1
    /\ row' = Claimed(committed)

NothingToEvaluate(w) ==
    /\ At(w, "idle") /\ ~EvaluationDue
    /\ Becomes(w, Delivering)
    /\ UNCHANGED <<row, deliveries, evaluations, edit, historyVars, faults>>

\* The reason of a silent decision in place of its kind.
DecisionsBug(m) ==
    IF m.breaching THEN {"repeat", "recover", "cooling-down"} ELSE {"fire", "silent"}

\* decide(): every number the engine may answer, and every elapsed cooldown.
Decisions(m) ==
    IF m.breaching THEN {"repeat", "recover", "silent"} ELSE {"fire", "silent"}

\* The engine may also have no data, refuse or throw, and nothing is evaluated:
\* what measurementUnavailable() records differs from a silent decision only in
\* what it tells the operator.  The save begins with its snapshot.
Observe(w) ==
    /\ At(w, "observing")
    /\ \E d \in Decisions(job[w].copy) :
          job' = [job EXCEPT ![w].at = "writing", ![w].decision = d, ![w].saw = row.exists]
    /\ UNCHANGED <<row, deliveries, evaluations, edit, historyVars, faults>>

\* The claim the save carries is still the row's, or the row is gone although
\* the snapshot had it: then the INSERT meets no conflict.
FenceHolds(j) ==
    \/ row.exists /\ row.lastAttempt = j.copy.lastAttempt /\ row.claim # "free"
    \/ ~row.exists /\ j.saw

\* apply() and alertsFor(): the row and the alerts of the decision.
AppliedBug(j) ==
    [j.copy EXCEPT !.claim = "free", !.breaching = @ /\ j.decision # "recover"]

Applied(j) ==
    [j.copy EXCEPT !.claim = "free",
                   !.breaching = CASE j.decision \in {"fire", "repeat"} -> TRUE
                                   [] j.decision = "recover" -> FALSE
                                   [] OTHER -> @]

AlertsOf(j) ==
    IF j.decision \in {"fire", "repeat", "recover"}
    THEN {j.copy.lastAttempt} \X j.copy.channels ELSE {}

\* The decision announces a breach that is announced, or the end of one that is not.
Again(j) ==
    \/ j.decision = "fire" /\ announced
    \/ j.decision \in {"repeat", "recover"} /\ ~announced

Announced(j) ==
    IF FenceHolds(j)
    THEN /\ deliveries' = [a \in Alert |->
                IF a \in AlertsOf(j) /\ deliveries[a].status = "none"
                THEN [deliveries[a] EXCEPT !.status = "pending"] ELSE deliveries[a]]
         /\ announced' = CASE j.decision \in {"fire", "repeat"} -> TRUE
                           [] j.decision = "recover" -> FALSE
                           [] OTHER -> announced
         /\ repeats' = IF Again(j) THEN repeats + 1 ELSE repeats
         /\ staleSaves' = IF row.exists /\ j.fresh THEN staleSaves ELSE staleSaves + 1
    ELSE UNCHANGED <<deliveries, accountVars>>

Recorded(j) == row' = (IF FenceHolds(j) THEN Applied(j) ELSE row) /\ Announced(j)

SaveEnds(w) ==
    /\ At(w, "writing")
    /\ Recorded(job[w])
    /\ Becomes(w, Delivering)
    /\ UNCHANGED <<evaluations, edit, heard, faults>>

ClaimDuringSave(w, v) ==
    /\ At(v, "writing") /\ FenceHolds(job[v])
    /\ Announced(job[v])
    /\ ClaimMisses(w, Applied(job[v]))
    /\ job' = [job EXCEPT ![v] = Delivering,
                          ![w] = Claims(row, View(Applied(job[v])) = View(row))]
    /\ UNCHANGED <<edit, heard, faults>>

\* The database fails the save, or commits it and its answer is lost.  The
\* sweep then records the failed attempt instead, once.
SaveFails(w) ==
    /\ At(w, "writing") /\ Fault
    /\ Recorded(job[w]) \/ UNCHANGED <<row, deliveries, accountVars>>
    /\ \/ job' = [job EXCEPT ![w].decision = "silent", ![w].saw = row'.exists]
       \/ job[w].decision = "silent" /\ Becomes(w, Delivering)
    /\ UNCHANGED <<evaluations, edit, heard>>

-----------------------------------------------------------------------------
(* Then it delivers, each recipient's alerts in order. *)

ClaimableOrderBug(a) == Pending(a) /\ deliveries[a].claim # "held"
ClaimableLeaseBug(a) ==
    /\ Pending(a) /\ deliveries[a].claim = "free"
    /\ ~\E b \in Alert : Pending(b) /\ Earlier(b, a)
Claimable(a) ==
    /\ Pending(a) /\ deliveries[a].claim # "held"
    /\ ~\E b \in Alert : Pending(b) /\ Earlier(b, a)

ClaimDelivery(w) ==
    /\ At(w, "delivering")
    /\ \E a \in Alert :
          /\ Claimable(a)
          /\ deliveries' = [deliveries EXCEPT ![a].claim = "held", ![a].attempts = @ + 1]
          /\ Becomes(w, [at |-> "sending", alert |-> a,
                         attempt |-> deliveries[a].attempts + 1])
    /\ UNCHANGED <<row, evaluations, edit, historyVars, faults>>

NothingToDeliver(w) ==
    /\ At(w, "delivering") /\ \A a \in Alert : ~Claimable(a)
    /\ Becomes(w, Idle)
    /\ UNCHANGED <<row, deliveries, evaluations, edit, historyVars, faults>>

Reaches(a) ==
    heard' = IF \E i \in DOMAIN heard : heard[i] = a THEN heard ELSE Append(heard, a)

NotifierAccepts(w) ==
    /\ At(w, "sending")
    /\ Reaches(job[w].alert)
    /\ GoesTo(w, "completing")
    /\ UNCHANGED <<row, deliveries, evaluations, edit, accountVars, faults>>

\* Refused, or unanswered after it arrived.
NotifierFails(w) ==
    /\ At(w, "sending") /\ Fault
    /\ Reaches(job[w].alert) \/ UNCHANGED heard
    /\ GoesTo(w, "failing")
    /\ UNCHANGED <<row, deliveries, evaluations, edit, accountVars>>

\* claimed_at is still this worker's and the alert neither delivered nor canceled.
Holds(j) ==
    LET d == deliveries[j.alert]
    IN d.status = "pending" /\ d.claim # "free" /\ d.attempts = j.attempt

\* The sweep takes the next alert, or its batch is used up.
Settled(w, status) ==
    /\ deliveries' = IF Holds(job[w])
                     THEN [deliveries EXCEPT ![job[w].alert].status = status,
                                             ![job[w].alert].claim = "free"]
                     ELSE deliveries
    /\ Becomes(w, Delivering) \/ Becomes(w, Idle)

CompleteDelivery(w) ==
    /\ At(w, "completing")
    /\ Settled(w, "delivered")
    /\ UNCHANGED <<row, evaluations, edit, historyVars, faults>>

\* A completion the database fails is handled as a failed delivery.
CompletionFails(w) ==
    /\ At(w, "completing") /\ Fault
    /\ GoesTo(w, "failing")
    /\ UNCHANGED <<row, deliveries, evaluations, edit, historyVars>>

\* next_attempt_at puts the retry off, by a time no action waits out.
FailDelivery(w) ==
    /\ At(w, "failing")
    /\ Settled(w, "pending")
    /\ UNCHANGED <<row, evaluations, edit, historyVars, faults>>

\* The process dies, or a statement outside every try ends the sweep.
Crash(w) ==
    /\ ~At(w, "idle") /\ Fault
    /\ Becomes(w, Idle)
    /\ UNCHANGED <<row, deliveries, evaluations, edit, historyVars>>

-----------------------------------------------------------------------------
(* Leases end by time: ten minutes for an evaluation, five for a delivery. *)

Evaluates(w) ==
    /\ job[w].at \in {"observing", "writing"}
    /\ job[w].copy.lastAttempt = row.lastAttempt

Delivers(w, a) ==
    /\ job[w].at \in {"sending", "completing", "failing"}
    /\ job[w].alert = a /\ job[w].attempt = deliveries[a].attempts

EvaluationLapses ==
    /\ row.exists /\ row.claim = "held"
    /\ IF \E w \in Worker : Evaluates(w) THEN Fault ELSE UNCHANGED faults
    /\ row' = [row EXCEPT !.claim = "lapsed"]
    /\ UNCHANGED <<deliveries, evaluations, job, edit, historyVars>>

DeliveryLapses(a) ==
    /\ Pending(a) /\ deliveries[a].claim = "held"
    /\ IF \E w \in Worker : Delivers(w, a) THEN Fault ELSE UNCHANGED faults
    /\ deliveries' = [deliveries EXCEPT ![a].claim = "lapsed"]
    /\ UNCHANGED <<row, evaluations, job, edit, historyVars>>

-----------------------------------------------------------------------------
(* Operators: find, a command of the aggregate, an unfenced save.  A request *)
(* that fails rolls back: it is one that never takes its last step.          *)

\* The commands one request may carry, and what each makes of the monitor.  A
\* name decides nothing here, so a rename matters only as a save of its own.
Commands(m) ==
    {{"rename"}, {"retarget"}, {"reconfigure"}, {"retarget", "reconfigure"},
     {IF m.enabled THEN "disable" ELSE "enable"}, {"delete"}}

Edited(m, cs, q, ch) ==
    [m EXCEPT !.question = IF "retarget" \in cs THEN q ELSE @,
              !.channels = IF "reconfigure" \in cs THEN ch ELSE @,
              !.enabled = IF cs = {"enable"} THEN TRUE
                          ELSE IF cs = {"disable"} THEN FALSE ELSE @,
              !.breaching = IF cs \cap {"retarget", "disable"} # {} THEN FALSE ELSE @,
              !.lastAttempt = IF cs \cap {"retarget", "enable"} # {} THEN 0 ELSE @]

Load(o) ==
    /\ edit[o].at = "idle" /\ row.exists
    /\ \E cs \in Commands(row), q \in Question, ch \in SUBSET Channel :
          /\ "retarget" \in cs \/ q = row.question
          /\ "reconfigure" \in cs \/ ch = row.channels
          /\ edit' = [edit EXCEPT ![o] =
                [at |-> "loaded", found |-> View(row), commands |-> cs,
                 saved |-> Edited(row, cs, q, ch), seen |-> {}]]
    /\ UNCHANGED <<row, deliveries, evaluations, job, historyVars, faults>>

\* The alerts a save cancels, of those its snapshot shows.
Cancels(e, a) ==
    \/ e.commands \cap {"retarget", "disable"} # {}
    \/ "reconfigure" \in e.commands /\ a[2] \notin e.saved.channels

EditBegins(o) ==
    /\ edit[o].at = "loaded" /\ edit[o].commands # {"delete"}
    /\ edit' = [edit EXCEPT ![o].at = "writing",
                            ![o].seen = {a \in Alert : Pending(a) /\ Cancels(edit[o], a)}]
    /\ UNCHANGED <<row, deliveries, evaluations, job, historyVars, faults>>

\* The whole row is written back, or inserted again if it was deleted.
SavedRowBug(e) == [e.saved EXCEPT !.claim = row.claim]
SavedRow(e) == [e.saved EXCEPT !.claim = "free"]

Edits(o) ==
    /\ edit[o].at = "writing"
    /\ deliveries' = [a \in Alert |->
          IF a \in edit[o].seen /\ Pending(a)
          THEN [deliveries[a] EXCEPT !.status = "canceled", !.claim = "free"]
          ELSE deliveries[a]]
    /\ announced' = (announced /\ edit[o].commands \cap {"retarget", "disable"} = {})
    /\ staleSaves' = IF row.exists /\ View(row) = edit[o].found
                     THEN staleSaves ELSE staleSaves + 1
    /\ UNCHANGED repeats
    /\ edit' = [edit EXCEPT ![o] = [at |-> "done"]]

EditEnds(o) ==
    /\ Edits(o)
    /\ row' = SavedRow(edit[o])
    /\ UNCHANGED <<evaluations, job, heard, faults>>

ClaimDuringEdit(w, o) ==
    /\ Edits(o)
    /\ ClaimMisses(w, SavedRow(edit[o]))
    /\ Becomes(w, Claims(row, View(SavedRow(edit[o])) = View(row)))
    /\ UNCHANGED <<heard, faults>>

\* The deliveries go with the monitor (ON DELETE CASCADE).
Delete(o) ==
    /\ edit[o].at = "loaded" /\ edit[o].commands = {"delete"}
    /\ row' = [row EXCEPT !.exists = FALSE]
    /\ deliveries' = [a \in Alert |-> IF deliveries[a].status = "none" THEN deliveries[a]
                                     ELSE [Unsent EXCEPT !.status = "gone"]]
    /\ edit' = [edit EXCEPT ![o] = [at |-> "done"]]
    /\ UNCHANGED <<evaluations, job, historyVars, faults>>

-----------------------------------------------------------------------------
EvaluationStep(w) ==
    \/ ClaimEvaluation(w) \/ NothingToEvaluate(w) \/ Observe(w) \/ SaveEnds(w)

DeliveryStep(w) ==
    \/ ClaimDelivery(w) \/ NothingToDeliver(w) \/ NotifierAccepts(w)
    \/ CompleteDelivery(w) \/ FailDelivery(w)

FaultStep(w) == SaveFails(w) \/ NotifierFails(w) \/ CompletionFails(w) \/ Crash(w)

OperatorStep(o) == Load(o) \/ EditBegins(o) \/ EditEnds(o) \/ Delete(o)

LeaseLapses == EvaluationLapses \/ \E a \in Alert : DeliveryLapses(a)

MonitorNext ==
    \/ \E w \in Worker : EvaluationStep(w) \/ DeliveryStep(w) \/ FaultStep(w)
    \/ \E w, v \in Worker : ClaimDuringSave(w, v)
    \/ \E w \in Worker, o \in Operator : ClaimDuringEdit(w, o)
    \/ LeaseLapses
    \/ \E o \in Operator : OperatorStep(o)

MonitorSpec == MonitorInit /\ [][MonitorNext]_monitorVars

\* The scheduler sweeps for ever, its statements end and time passes.
MonitorFairness ==
    /\ \A w \in Worker : WF_monitorVars(EvaluationStep(w) \/ DeliveryStep(w))
    /\ WF_monitorVars(LeaseLapses)

MonitorFairSpec == MonitorSpec /\ MonitorFairness

-----------------------------------------------------------------------------
Monitor == [exists : BOOLEAN, enabled : BOOLEAN, breaching : BOOLEAN,
            question : Question, channels : SUBSET Channel,
            lastAttempt : 0..MaxEvaluations, claim : {"free", "held", "lapsed"}]

Delivery == [status : {"none", "pending", "delivered", "canceled", "gone"},
             attempts : Nat, claim : {"free", "held", "lapsed"}]

SweepJob ==
    [at : {"idle", "delivering"}]
        \cup [at : {"observing", "writing"}, copy : Monitor,
              saw : BOOLEAN, fresh : BOOLEAN,
              decision : {"fire", "repeat", "recover", "silent"}]
        \cup [at : {"sending", "completing", "failing"}, alert : Alert, attempt : Nat]

Request ==
    [at : {"idle", "done"}]
        \cup [at : {"loaded", "writing"}, found : BOOLEAN \X (BOOLEAN \X Question \X SUBSET Channel), saved : Monitor,
              seen : SUBSET Alert,
              commands : SUBSET {"rename", "retarget", "reconfigure", "enable",
                                 "disable", "delete"}]

\* Every variable holds what its column, local or history may hold.
MonitorTypeOK ==
    /\ row \in Monitor /\ deliveries \in [Alert -> Delivery]
    /\ evaluations \in 0..MaxEvaluations
    /\ job \in [Worker -> SweepJob] /\ edit \in [Operator -> Request]
    /\ heard \in Seq(Alert) /\ announced \in BOOLEAN
    /\ repeats \in Nat /\ staleSaves \in Nat
    /\ faults \in 0..MaxFaults

(***************************************************************************)
(* A recovery waits behind its recipient's earlier notices: each recipient *)
(* first hears of its alerts in the order they occurred, whatever fails,   *)
(* crashes or lapses; only an alert canceled, or deleted, in flight may    *)
(* come late.                                                              *)
(***************************************************************************)
HeardInOrder ==
    \A j \in DOMAIN heard : \A i \in 1..(j - 1) :
        Earlier(heard[j], heard[i]) =>
            \/ deliveries[heard[j]].status \in {"canceled", "gone"}
            \/ deliveries[heard[i]].status = "gone"

(***************************************************************************)
(* The account of what is announced again.  A breach is announced as new   *)
(* once and its recovery once, however workers race for a lapsed           *)
(* evaluation, but for one repeat for every save of a stale copy.  Such a  *)
(* copy is an operator's, loaded before another save committed, or brings  *)
(* a deleted row back; and without any operator it is that of a worker     *)
(* whose claim overlapped a save: its SELECT read the row as it was before *)
(* that commit (monitor-repository.ts:108), and the fence lets its own     *)
(* save pass.  Two workers may announce one breach twice that way.         *)
(***************************************************************************)
AnnouncedOnce == repeats <= staleSaves

(***************************************************************************)
(* The evaluation fence: a worker that claimed the monitor before an edit  *)
(* neither undoes the edit nor announces to recipients it removed, about a *)
(* question it replaced or for a monitor it disabled.  A worker whose      *)
(* claim overlapped the edit's commit, and read the row as it was before   *)
(* it, is not one of these (~fresh): it writes the old settings back.      *)
(***************************************************************************)
EvaluationIsCurrent ==
    [][\A w \in Worker :
          At(w, "writing") /\ job'[w] # job[w] /\ row.exists /\ job[w].fresh =>
              /\ SettingsOf(row') = SettingsOf(row)
              /\ \A a \in Alert : deliveries'[a] # deliveries[a] =>
                    row.enabled /\ a[2] \in row.channels]_monitorVars

(***************************************************************************)
(* A delivery failure stays queued: once failures, crashes and early       *)
(* lapses end, every alert is delivered, canceled or gone.                 *)
(***************************************************************************)
AlertsSettle == \A a \in Alert : Pending(a) ~> ~Pending(a)

=============================================================================
