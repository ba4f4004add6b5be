------------------------------ MODULE PiProcess ------------------------------
(***************************************************************************)
(* The firmware as a process: the capture loop that reads blocks from      *)
(* arecord, the watchdog that ends the process when none comes, and the    *)
(* systemd unit that restarts it.                                          *)
(***************************************************************************)
EXTENDS Naturals

CONSTANTS
    StartLimitBurst,  \* starts systemd allows before it gives up
    MaxTroubles       \* bound on what befalls arecord and the clock

ASSUME ProcessAssumption == StartLimitBurst \in Nat \ {0} /\ MaxTroubles \in Nat

VARIABLES
    unit,      \* the systemd unit: up, stopping, failed or inactive
    capture,   \* arecord: delivering, exited, hung, or the capture task ended
    stale,     \* the watchdog would find the last block more than 30 s old
    starts,    \* starts counted against StartLimitBurst
    troubles   \* history: troubles so far

processVars == <<unit, capture, stale, starts, troubles>>

ProcessTypeOK ==
    /\ unit \in {"up", "stopping", "failed", "inactive"}
    /\ capture \in {"flowing", "exited", "hung", "ended"}
    /\ stale \in BOOLEAN
    /\ starts \in 1..StartLimitBurst
    /\ troubles \in 0..MaxTroubles

ProcessInit ==
    /\ unit = "up"
    /\ capture = "flowing"
    /\ stale = FALSE
    /\ starts = 1
    /\ troubles = 0

Trouble == troubles < MaxTroubles /\ troubles' = troubles + 1

(* _handle_block notes the time of a block before anything else. *)
Block ==
    /\ unit = "up"
    /\ capture = "flowing"
    /\ stale
    /\ stale' = FALSE
    /\ UNCHANGED <<unit, capture, starts, troubles>>

(* AudioCapture.blocks: arecord closes its pipe, or stops writing to it.   *)
Silence ==
    /\ unit = "up"
    /\ capture = "flowing"
    /\ capture' \in {"exited", "hung"}
    /\ Trouble
    /\ UNCHANGED <<unit, stale, starts>>

(* An arecord that exited is spawned again after a backoff; one that is    *)
(* no longer installed ends the capture task.                              *)
Respawn ==
    /\ unit = "up"
    /\ capture = "exited"
    /\ \/ capture' = "flowing" /\ UNCHANGED troubles
       \/ capture' = "ended" /\ Trouble
    /\ UNCHANGED <<unit, stale, starts>>

(* Thirty seconds without a block. *)
GoStale ==
    /\ unit = "up"
    /\ capture # "flowing"
    /\ ~stale
    /\ stale' = TRUE
    /\ UNCHANGED <<unit, capture, starts, troubles>>

(* time.time() is set forward between a block and the watchdog's look. *)
ClockStep ==
    /\ unit = "up"
    /\ ~stale
    /\ stale' = TRUE
    /\ Trouble
    /\ UNCHANGED <<unit, capture, starts>>

Watchdog ==
    /\ unit = "up"
    /\ stale
    /\ unit' = "stopping"
    /\ UNCHANGED <<capture, stale, starts, troubles>>

(* run() returns 0, which Restart=on-failure leaves alone. *)
ExitCleanly ==
    /\ unit = "stopping"
    /\ unit' = "inactive"
    /\ UNCHANGED <<capture, stale, starts, troubles>>

(* Killed, by the memory limit or otherwise. *)
Die ==
    /\ unit \in {"up", "stopping"}
    /\ unit' = "failed"
    /\ Trouble
    /\ UNCHANGED <<capture, stale, starts>>

(* A unit that failed too often is left alone. *)
SystemdRestart ==
    /\ unit = "failed"
    /\ IF starts < StartLimitBurst
       THEN /\ unit' = "up"
            /\ capture' = "flowing"
            /\ stale' = FALSE
            /\ starts' = starts + 1
       ELSE unit' = "inactive" /\ UNCHANGED <<capture, stale, starts>>
    /\ UNCHANGED troubles

ProcessNext ==
    \/ Block \/ Silence \/ Respawn \/ GoStale \/ ClockStep
    \/ Watchdog \/ ExitCleanly \/ Die \/ SystemdRestart

ProcessFairness ==
    /\ WF_processVars(Block)
    /\ WF_processVars(Respawn)
    /\ WF_processVars(GoStale)
    /\ WF_processVars(Watchdog)
    /\ WF_processVars(ExitCleanly)
    /\ WF_processVars(SystemdRestart)

FairProcessSpec == ProcessInit /\ [][ProcessNext]_processVars /\ ProcessFairness

-----------------------------------------------------------------------------
(* The watchdog "notices when the capture loop has gone quiet" so that     *)
(* systemd "can restart us" (supervisor.py): a capture that stopped        *)
(* delivering delivers again, unless systemd gave up on a unit that failed *)
(* too often.                                                              *)
AudioComesBack ==
    capture # "flowing" ~> (unit = "up" /\ capture = "flowing") \/ starts = StartLimitBurst
=============================================================================
