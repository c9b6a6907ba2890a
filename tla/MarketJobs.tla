------------------------------ MODULE MarketJobs ------------------------------
(***************************************************************************)
(* The market jobs of a process: at 09:30 and at 17:00, once at startup,   *)
(* and every minute while something is left to do, every security somebody *)
(* holds is synchronised through the market cache, and the outcome is kept *)
(* for each slot of the day in market_refresh_runs.                        *)
(*                                                                         *)
(* One Shanghai day.  The daily snapshots that end a batch are one step    *)
(* here, which succeeds or fails.                                          *)
(***************************************************************************)
EXTENDS MarketCache

CONSTANTS SlotCount  \* slots of a day (2 in the code)

ASSUME JobsAssumption == SlotCount \in Nat \ {0}

Slots == 1..SlotCount

VARIABLES elapsed,  \* how many slots of today have come
          runs,     \* job_state of market_refresh_runs
          cooling,  \* slots that failed less than five minutes ago
          job       \* the goroutine of runMarketJobs

jobVars == <<elapsed, runs, cooling, job>>
allVars == <<vars, jobVars>>

RunState == {"none", "running", "complete", "failed"}
JobState == {"boot", "idle", "mark", "start", "wait", "rates", "snapshots", "finish"}

\* slots: missing.  rest: what the loop at pc still has to do: slots to write, or
\* securities to start or to look at.  bad: a failure was counted.  missed: a
\* goroutine ended without success and none was counted (history variable).
Job == [pc : JobState, slots : SUBSET Slots, rest : SUBSET (Slots \cup Securities),
        bad : BOOLEAN, missed : BOOLEAN]
At(pc) == [pc |-> pc, slots |-> {}, rest |-> {}, bad |-> FALSE, missed |-> FALSE]

JobsInit ==
  /\ CacheInit
  /\ elapsed = 0
  /\ runs = [i \in Slots |-> "none"]
  /\ cooling = {}
  /\ job = At("boot")

-----------------------------------------------------------------------------

\* A slot that is neither complete nor cooling down after a failure.
DueSlot_AlsoComplete(i) == i \notin cooling
DueSlot_NotRunning(i) == runs[i] \notin {"complete", "running"} /\ i \notin cooling
DueSlot(i) == runs[i] # "complete" /\ i \notin cooling
Missing_NotYetDue == {i \in Slots : DueSlot(i)}
Missing == {i \in 1..elapsed : DueSlot(i)}

\* runMarketSlots, at startup and every minute: all missed slots in one batch.
\* When no slot has come yet, the startup has a batch of its own.
TakeUp ==
  /\ job.pc \in {"boot", "idle"}
  /\ \/ /\ Missing # {}
        /\ job' = [At("mark") EXCEPT !.slots = Missing, !.rest = Missing]
     \/ /\ Missing = {} /\ job.pc = "boot"
        /\ job' = IF elapsed = 0 THEN [At("start") EXCEPT !.rest = Securities] ELSE At("idle")
  /\ UNCHANGED <<vars, elapsed, runs, cooling>>

\* Goes to the next element of a loop, or with its last one to pc.
Done(x, pc, next) == IF job.rest = {x} THEN [job EXCEPT !.pc = pc, !.rest = next]
                                       ELSE [job EXCEPT !.rest = @ \ {x}]

\* The batch gives up when a row cannot be written.
GiveUp == /\ ~calm
          /\ job' = At("idle")
          /\ UNCHANGED <<vars, elapsed, runs, cooling>>

WriteRun(i, state) ==
  /\ runs' = [runs EXCEPT ![i] = state]
  /\ cooling' = IF state = "failed" THEN cooling \cup {i} ELSE cooling
  /\ UNCHANGED <<vars, elapsed>>

MarkRunning ==
  /\ job.pc = "mark"
  /\ \/ \E i \in job.rest : WriteRun(i, "running") /\ job' = Done(i, "start", Securities)
     \/ GiveUp

\* refreshMarketBatch: a goroutine for each security, its own or one that runs already.
StartFlights ==
  /\ job.pc = "start"
  /\ \E s \in job.rest : StartFlight(s, FALSE, TRUE) /\ job' = Done(s, "wait", Securities)
  /\ UNCHANGED <<worldVars, storeVars, reader, elapsed, runs, cooling>>

\* A goroutine's channel is closed: last_error tells how it went.
Counts(s) == failure[s] # "none"

WaitFlights ==
  /\ job.pc = "wait"
  /\ \E f \in Flights :
       LET s == flight[f].key IN
       /\ flight[f].pc = "closed" /\ s \in job.rest
       /\ job' = [Done(s, "rates", {}) EXCEPT
                    !.bad = @ \/ Counts(s),
                    !.missed = @ \/ ~(flight[f].good \/ Counts(s))]
       /\ flight' = [flight EXCEPT ![f] = NoGoroutine]
  /\ UNCHANGED <<worldVars, storeVars, registered, slotsUsed, fxMu, reader, elapsed, runs, cooling>>

BatchRates ==
  /\ job.pc = "rates"
  /\ \/ /\ IF rates > 0 THEN StoreRates ELSE UNCHANGED <<prices, rows, rates, cached>>
        /\ job' = [job EXCEPT !.pc = "snapshots"]
     \/ /\ ~calm /\ job' = [job EXCEPT !.pc = "snapshots", !.bad = TRUE]
        /\ UNCHANGED <<prices, rows, rates, cached>>
  /\ UNCHANGED <<worldVars, failure, goVars, reader, elapsed, runs, cooling>>

\* recordCachedAssetSnapshots.  A batch without a slot ends here.
BatchSnapshots ==
  /\ job.pc = "snapshots"
  /\ \E failed \in {FALSE, ~calm} :
       job' = IF job.slots = {} THEN At("idle")
              ELSE [job EXCEPT !.pc = "finish", !.rest = job.slots, !.bad = @ \/ failed]
  /\ UNCHANGED <<vars, elapsed, runs, cooling>>

Finish ==
  /\ job.pc = "finish"
  /\ \/ \E i \in job.rest : /\ WriteRun(i, IF job.bad THEN "failed" ELSE "complete")
                            /\ job' = IF job.rest = {i} THEN At("idle") ELSE Done(i, "finish", {})
     \/ GiveUp

JobStep == TakeUp \/ MarkRunning \/ StartFlights \/ WaitFlights \/ BatchRates \/ BatchSnapshots
           \/ Finish

-----------------------------------------------------------------------------

\* The clock reaches the next slot.
SlotComes ==
  /\ elapsed < SlotCount /\ elapsed' = elapsed + 1
  /\ UNCHANGED <<vars, runs, cooling, job>>

RunCools(i) ==
  /\ i \in cooling /\ cooling' = cooling \ {i}
  /\ UNCHANGED <<vars, elapsed, runs, job>>

RestartJobs ==
  /\ Restart
  /\ job' = At("boot")
  /\ UNCHANGED <<elapsed, runs, cooling>>

JobsNext ==
  \/ CacheStep /\ UNCHANGED jobVars
  \/ JobStep \/ SlotComes \/ RestartJobs
  \/ \E i \in Slots : RunCools(i)

JobsSpec == JobsInit /\ [][JobsNext]_allVars

\* The job is one goroutine, woken every minute; timers end.
FairJobsSpec ==
  /\ JobsSpec
  /\ WF_allVars(JobStep)
  /\ \A i \in Slots : WF_allVars(RunCools(i))
  /\ \A f \in Flights : /\ WF_allVars(FlightStep(f) /\ UNCHANGED jobVars)
                        /\ SF_allVars(TakeSlot(f) /\ UNCHANGED jobVars)
                        /\ SF_allVars(EnsureRates(f) /\ UNCHANGED jobVars)

-----------------------------------------------------------------------------

\* Types, and only slots that have come are on record.
JobsTypeOK ==
  /\ TypeOK
  /\ elapsed \in 0..SlotCount
  /\ runs \in [Slots -> RunState] /\ \A i \in Slots : i > elapsed => runs[i] = "none"
  /\ cooling \subseteq {i \in Slots : runs[i] = "failed"}
  /\ job \in Job

\* A slot that was refreshed is not refreshed again, across any number of restarts.
CompleteSlotsStay ==
  [][\A i \in Slots : runs[i] = "complete" => runs'[i] = "complete"]_allVars

\* Once nothing fails any more, every slot that has come is completed: the ones a
\* crash left running, those that failed, and those missed while nothing ran.
SlotsRecover == \A i \in Slots : calm /\ elapsed >= i ~> runs[i] = "complete"

\* A batch that is about to complete its slots has refreshed every security; one whose
\* synchronisation did not succeed counts as a failure.
CompleteMeansRefreshed == job.pc = "finish" /\ ~job.bad => ~job.missed
=============================================================================
