---------------------------- MODULE IngestServer ----------------------------
(***************************************************************************)
(* The API process around the coalescer: the timer that ticks it and the   *)
(* shutdown (apps/api/src/main.ts), on the HTTP server of listen.ts.       *)
(* GroupCommit owns no timer: its Tick happens only when this one fires,   *)
(* and its Drain only when stop() reaches it.                              *)
(*                                                                         *)
(* The server is external: stop() refuses new connections and resolves     *)
(* when none is open.  Left out: everything of a request but its call of   *)
(* submit(), a second signal, and the three pools, which end before exit.  *)
(***************************************************************************)
EXTENDS GroupCommit

VARIABLES
    arrived,  \* the requests the server accepted
    closed,   \* those whose connection was closed unanswered
    armed,    \* the timer `armed` is set
    phase     \* how far stop() is

serverVars == <<arrived, closed, armed, phase>>
allVars == <<vars, serverVars>>

-----------------------------------------------------------------------------
ServerInit ==
    /\ Init
    /\ arrived = {} /\ closed = {} /\ armed = FALSE /\ phase = "open"

OpenGroups(gs) == {p \in Project : gs[p].waiters # {}}
OpenConnections == {r \in arrived : pc[r] # "done"} \ closed

Arrives(r) ==
    /\ phase = "open" /\ r \notin arrived
    /\ arrived' = arrived \cup {r}
    /\ UNCHANGED <<vars, closed, armed, phase>>

\* The handler, the quota and the sink go on, also for a closed connection.
Handles ==
    /\ phase # "exited"
    /\ \/ \E r \in arrived : Submit(r) \/ QuotaAnswers(r)
       \/ \E c \in commits : CommitStep(c)
       \/ Advance
    /\ UNCHANGED serverVars

\* The database outlives the process.
DatabaseCommits == (\E c \in late : SinkCommitsLate(c)) /\ UNCHANGED serverVars

\* rearm(), every 25 ms while the interval `pump` runs.
Rearm ==
    /\ phase = "open" /\ ~armed /\ OpenGroups(groups) # {}
    /\ armed' = TRUE
    /\ UNCHANGED <<vars, arrived, closed, phase>>

TimerDue == armed /\ \E p \in Project : groups[p].waiters # {} /\ groups[p].age >= Linger

\* tick(), then rearm().
TimerFires ==
    /\ TimerDue
    /\ Tick
    /\ armed' = (OpenGroups(groups') # {})
    /\ UNCHANGED <<arrived, closed, phase>>

\* stop(), up to `await server.stop()`.
Stop ==
    /\ phase = "open"
    /\ phase' = "stopping" /\ armed' = FALSE
    /\ UNCHANGED <<vars, arrived, closed>>

\* An open group that nothing will flush: no timer, no commit whose end pumps,
\* no caller between the quota's check and the group.
Stranded(r) ==
    /\ r \in Waiting \ closed
    /\ phase = "stopping" /\ commits = {}
    /\ \A q \in arrived : pc[q] \in {"joined", "done"}

IdleTimeoutBug(r) == Stranded(r) /\ UNCHANGED allVars

\* idleTimeout.  A minute is longer than the timer, the quota and the sink
\* take, so it strikes only the requests that nothing else will move.
IdleTimeout(r) ==
    /\ Stranded(r)
    /\ closed' = closed \cup {r}
    /\ UNCHANGED <<vars, arrived, armed, phase>>

ServerStoppedBug ==
    /\ phase = "stopping" /\ OpenConnections = {}
    /\ phase' = "exited"
    /\ UNCHANGED <<vars, arrived, closed, armed>>

\* `await server.stop()` resolves and drain() is called.
ServerStopped ==
    /\ phase = "stopping" /\ OpenConnections = {}
    /\ phase' = "draining"
    /\ Drain
    /\ UNCHANGED <<arrived, closed, armed>>

\* `await commit.drain()` resolves, the pools end and the process exits.
Exit ==
    /\ phase = "draining"
    /\ phase' = "exited"
    /\ DrainResolves
    /\ UNCHANGED <<arrived, closed, armed>>

Exited == phase = "exited" /\ UNCHANGED allVars

ServerNext ==
    \/ \E r \in Request : Arrives(r) \/ IdleTimeout(r)
    \/ Handles \/ DatabaseCommits
    \/ Rearm \/ TimerFires
    \/ Stop \/ ServerStopped \/ Exit \/ Exited

\* A signal need not come; what was started goes on.
ServerFairness ==
    /\ WF_allVars(Rearm) /\ WF_allVars(TimerFires)
    /\ WF_allVars(ServerStopped) /\ WF_allVars(Exit)
    /\ WF_allVars(phase # "exited" /\ Advance /\ UNCHANGED serverVars)
    /\ \A r \in Request :
          /\ WF_allVars(IdleTimeout(r))
          /\ WF_allVars(/\ phase # "exited" /\ r \in arrived
                        /\ Submit(r) \/ QuotaAnswers(r)
                        /\ UNCHANGED serverVars)
    /\ \A p \in Project :
          WF_allVars(/\ phase # "exited"
                     /\ \E c \in commits : c.project = p /\ CommitStep(c)
                     /\ UNCHANGED serverVars)

ServerSpec == ServerInit /\ [][ServerNext]_allVars /\ ServerFairness

-----------------------------------------------------------------------------
(***************************************************************************)
(* policy.ts:12, on starvation: under the process's own timer every        *)
(* request that joined a group is answered, also across a shutdown.        *)
(***************************************************************************)
JoinedIsAnswered == \A r \in Request : pc[r] = "joined" ~> pc[r] = "done"

\* main.ts:517, "Drain before exit": a shutdown always comes to its end.
ShutdownCompletes == phase = "stopping" ~> phase = "exited"

(***************************************************************************)
(* main.ts:520-529: stop() waits for the server and for drain() before the *)
(* pools end, so no call that was let in is abandoned half way, although   *)
(* submit() reads #draining only before it awaits the quota.               *)
(***************************************************************************)
ExitAbandonsNobody ==
    phase = "exited" => /\ \A r \in arrived : pc[r] = "done"
                        /\ commits = {} /\ OpenGroups(groups) = {}

(***************************************************************************)
(* main.ts:517: "A process that stops with waiters outstanding has         *)
(* accepted events and answered nobody, which is the worst of both."       *)
(***************************************************************************)
StoredIsAnswered ==
    \A r \in closed : CopiesOf(r, rows[ProjectOf[r]]) = {}
=============================================================================
