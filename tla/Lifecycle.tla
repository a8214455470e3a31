------------------------------- MODULE Lifecycle -------------------------------
(***************************************************************************)
(* How one engine process starts, keeps its tasks alive, and ends.         *)
(*                                                                         *)
(*   engine.py    start, _spawn, _supervise, run_forever, shutdown, the    *)
(*                start and the end of _heartbeat_loop, _cancel_assets     *)
(*   gateway.py   place and heartbeat as calls on the executor, _io,       *)
(*                close                                                    *)
(*   cli.py       _go                                                      *)
(*                                                                         *)
(* A call to the exchange runs in a thread of the gateway's pool.  Its     *)
(* task waits for it and may be cancelled meanwhile; the thread may not.   *)
(* "other" stands for the streams and the loops that only matter here      *)
(* because they may raise; a quoter catches what it raises.                *)
(***************************************************************************)
EXTENDS Integers

CONSTANT MaxDeaths   \* bound: tasks that raise

ASSUME LifeAssumption == MaxDeaths \in Nat

Tasks == {"heartbeat", "quoter", "other", "supervisor"}
Dead == {"ended", "raised"}

VARIABLES
  life,      \* how far start or shutdown has come; "running" between the two
  beating,   \* cfg.engine.heartbeat
  task,      \* Engine._tasks: "none", "run" or how the task ended
  watched,   \* the tasks gather waits for: those never restarted
  doomed,    \* a watched task has raised
  deaths,
  placing,   \* the quoter is inside the placement lock
  call,      \* its placement in the pool: "none", "queued" or "running"
  live,      \* an order of ours is at the exchange
  armed,     \* the exchange cancels our orders when heartbeats stop
  missed,    \* history: a heartbeat failed
  left       \* history: why an order may outlive the shutdown

lifeVars ==
  <<life, beating, task, watched, doomed, deaths, placing, call, live, armed, missed, left>>

Alive == life \notin {"down", "crashed"}

-------------------------------------------------------------------------------
(* start *)

\* The dead-man switch is registered before any quoter can place an order; the
\* result of the attempt is not looked at, nor whether heartbeats are wanted.
StartBeat ==
  /\ life = "start"
  /\ life' = "spawn"
  /\ \/ armed' = TRUE /\ UNCHANGED missed
     \/ missed' = TRUE /\ UNCHANGED armed
  /\ UNCHANGED <<beating, task, watched, doomed, deaths, placing, call, live, left>>

Spawned ==
  /\ life' = "running"
  /\ task' = [t \in Tasks |-> "run"]
  /\ watched' = Tasks
  /\ UNCHANGED <<beating, doomed, deaths, placing, call, live, armed, missed, left>>

SpawnAtOnce == life = "start" /\ Spawned   \* mutant: quoters before the first heartbeat

Spawn == life = "spawn" /\ Spawned

\* connect or the startup reconciliation raises.
StartFails ==
  /\ life = "start"
  /\ life' = "stopping"
  /\ UNCHANGED <<beating, task, watched, doomed, deaths, placing, call, live, armed, missed, left>>

-------------------------------------------------------------------------------
(* The tasks *)

Beat ==
  /\ life = "running" /\ beating /\ task["heartbeat"] = "run"
  /\ \/ armed' = TRUE /\ UNCHANGED missed
     \/ missed' = TRUE /\ UNCHANGED armed
  /\ UNCHANGED <<life, beating, task, watched, doomed, deaths, placing, call, live, left>>

\* Without heartbeats the heartbeat task has nothing to do.
HeartbeatExits ==
  /\ life = "running" /\ ~beating /\ task["heartbeat"] = "run"
  /\ task' = [task EXCEPT !["heartbeat"] = "ended"]
  /\ UNCHANGED <<life, beating, watched, doomed, deaths, placing, call, live, armed, missed, left>>

TaskRaises(t) ==
  /\ life = "running" /\ task[t] = "run" /\ deaths < MaxDeaths
  /\ deaths' = deaths + 1
  /\ task' = [task EXCEPT ![t] = "raised"]
  /\ doomed' = (doomed \/ t \in watched)
  /\ UNCHANGED <<life, beating, watched, placing, call, live, armed, missed, left>>

Restarted(t) ==
  /\ task' = [task EXCEPT ![t] = "run"]
  /\ watched' = watched \ {t}
  /\ UNCHANGED <<life, beating, doomed, deaths, placing, call, live, armed, missed, left>>

SuperviseRaised(t) ==   \* mutant: a task that ended without an exception is left alone
  /\ life = "running" /\ task["supervisor"] = "run" /\ task[t] = "raised"
  /\ Restarted(t)

Supervise(t) ==
  /\ life = "running" /\ task["supervisor"] = "run" /\ task[t] \in Dead
  /\ Restarted(t)

\* A recompute reaches gateway.place, inside the placement lock.
PlaceBegins ==
  /\ life = "running" /\ task["quoter"] = "run" /\ ~placing /\ call = "none"
  /\ placing' = TRUE /\ call' = "queued"
  /\ UNCHANGED <<life, beating, task, watched, doomed, deaths, live, armed, missed, left>>

\* A worker of the pool takes the call.
CallRuns ==
  /\ Alive /\ call = "queued"
  /\ call' = "running"
  /\ UNCHANGED <<life, beating, task, watched, doomed, deaths, placing, live, armed, missed, left>>

\* The exchange takes the order or not, and the task goes on if it still waits.
CallReturns ==
  /\ life # "crashed" /\ call = "running"
  /\ call' = "none" /\ placing' = FALSE
  /\ live' \in {live, TRUE}
  /\ UNCHANGED <<life, beating, task, watched, doomed, deaths, armed, missed, left>>

-------------------------------------------------------------------------------
(* The end *)

\* SIGINT cancels the main task; gather raises what the first watched task raised.
\* Either way _go goes on to shutdown, which clears _running.
StopAsked ==
  /\ life \in {"start", "spawn", "running"}
  /\ life' = "stopping"
  /\ UNCHANGED <<beating, task, watched, doomed, deaths, placing, call, live, armed, missed, left>>

GatherRaises ==
  /\ life = "running" /\ doomed
  /\ life' = "stopping"
  /\ UNCHANGED <<beating, task, watched, doomed, deaths, placing, call, live, armed, missed, left>>

CancelTasksOnly ==   \* mutant: a call no worker has taken yet stays in the queue
  /\ life = "stopping"
  /\ life' = "cancelling"
  /\ task' = [t \in Tasks |-> IF task[t] = "run" THEN "ended" ELSE task[t]]
  /\ placing' = FALSE
  /\ left' = IF call = "running" THEN left \union {"orphan"} ELSE left
  /\ UNCHANGED <<beating, watched, doomed, deaths, call, live, armed, missed>>

\* Every task is cancelled.  That frees the placement lock, and withdraws a call
\* that no worker has taken yet, but not one that runs.
CancelTasks ==
  /\ life = "stopping"
  /\ life' = "cancelling"
  /\ task' = [t \in Tasks |-> IF task[t] = "run" THEN "ended" ELSE task[t]]
  /\ placing' = FALSE
  /\ call' = IF call = "queued" THEN "none" ELSE call
  /\ left' = IF call = "running" THEN left \union {"orphan"} ELSE left
  /\ UNCHANGED <<beating, watched, doomed, deaths, live, armed, missed>>

\* _cancel_managed_assets; shutdown does not look at its result.
CancelAssets ==
  /\ life = "cancelling" /\ ~placing
  /\ life' = "closing"
  /\ \/ live' = FALSE /\ UNCHANGED left
     \/ left' = left \union {"failed"} /\ UNCHANGED live
  /\ UNCHANGED <<beating, task, watched, doomed, deaths, placing, call, armed, missed>>

CloseAtOnce ==   \* mutant: the pool is told to stop but not waited for
  /\ life = "closing"
  /\ life' = "down"
  /\ UNCHANGED <<beating, task, watched, doomed, deaths, placing, call, live, armed, missed, left>>

\* gateway.close: what is queued is dropped, what runs is waited for.
Close ==
  /\ life = "closing" /\ call # "running"
  /\ life' = "down"
  /\ call' = "none"
  /\ UNCHANGED <<beating, task, watched, doomed, deaths, placing, live, armed, missed, left>>

\* The process is killed; a post that was under way has reached the exchange or not.
Dies ==
  /\ Alive
  /\ life' = "crashed"
  /\ live' \in IF call = "running" THEN {live, TRUE} ELSE {live}
  /\ call' = "none" /\ placing' = FALSE
  /\ UNCHANGED <<beating, task, watched, doomed, deaths, armed, missed, left>>

\* Heartbeats have stopped, and the exchange cancels what is ours (external).
DeadManFires ==
  /\ armed /\ live
  /\ ~Alive \/ missed \/ ~beating \/ task["heartbeat"] # "run"
  /\ live' = FALSE
  /\ UNCHANGED <<life, beating, task, watched, doomed, deaths, placing, call, armed, missed, left>>

-------------------------------------------------------------------------------
LifeStart ==
  /\ life = "start" /\ task = [t \in Tasks |-> "none"]
  /\ watched = {} /\ doomed = FALSE /\ deaths = 0
  /\ placing = FALSE /\ call = "none" /\ live = FALSE
  /\ armed = FALSE /\ missed = FALSE /\ left = {}

LifeInit == LifeStart /\ beating \in BOOLEAN

LifeNext ==
  \/ StartBeat \/ Spawn \/ StartFails \/ Beat \/ HeartbeatExits
  \/ \E t \in {"heartbeat", "other"} : TaskRaises(t) \/ Supervise(t)
  \/ PlaceBegins \/ CallRuns \/ CallReturns \/ StopAsked \/ GatherRaises
  \/ CancelTasks \/ CancelAssets \/ Close \/ Dies \/ DeadManFires

\* Steps between awaits happen, calls return, the supervisor looks every few
\* seconds, and a switch that is registered fires.  Nothing says that the operator
\* stops the engine.
LifeFair ==
  /\ WF_lifeVars(StartBeat) /\ WF_lifeVars(Spawn) /\ WF_lifeVars(GatherRaises)
  /\ \A t \in {"heartbeat", "other"} : WF_lifeVars(Supervise(t))
  /\ WF_lifeVars(CallRuns) /\ WF_lifeVars(CallReturns) /\ WF_lifeVars(CancelTasks)
  /\ WF_lifeVars(CancelAssets) /\ WF_lifeVars(Close) /\ WF_lifeVars(DeadManFires)

LifeSpec == LifeInit /\ [][LifeNext]_lifeVars /\ LifeFair

-------------------------------------------------------------------------------
(* Properties *)

LifeTypeOK ==
  /\ life \in {"start", "spawn", "running", "stopping", "cancelling", "closing", "down", "crashed"}
  /\ beating \in BOOLEAN /\ task \in [Tasks -> {"none", "run"} \union Dead]
  /\ watched \subseteq Tasks /\ doomed \in BOOLEAN /\ deaths \in 0 .. MaxDeaths
  /\ placing \in BOOLEAN /\ call \in {"none", "queued", "running"}
  /\ {live, armed, missed} \subseteq BOOLEAN /\ left \subseteq {"orphan", "failed"}
  \* The placement lock is held exactly while its call is waited for.
  /\ placing => call # "none"
  /\ call # "none" => placing \/ left # {}

\* "A dead task is restarted, never silently gone" (start): whatever ends, raises or
\* is cancelled, the task runs again or the whole process ends, and a shutdown,
\* whatever it interrupted, is not left waiting for a lock or a call.
NeverHalfDead ==
  \A t \in Tasks : task[t] \in Dead ~> task[t] = "run" \/ ~Alive

\* "A crash between placing and the first heartbeat still auto-cancels" (start):
\* unless a heartbeat has failed, no order outlives the process that crashed.
CrashCleans == life = "crashed" /\ ~missed ~> ~live

\* Once the engine is down no worker can still post, and an order that outlives it
\* was in a worker's hands when its task was cancelled, or its cancellation failed.
DownExplained ==
  life = "down" => call = "none" /\ (live => left # {})
===============================================================================
