---------------------------- MODULE RuntimeConfig ----------------------------
(***************************************************************************)
(* Runtime configuration: an admin edits a device's overlay, the API       *)
(* publishes it as a retained command before it commits the row, and the   *)
(* Pi merges it into its own overlay file, which outlives a restart.       *)
(***************************************************************************)
EXTENDS PiProcess, Sequences

CONSTANTS
    Key, Value,   \* MUTABLE_FIELDS and what they may be set to
    Admin,        \* PUT requests served at the same time
    MaxPuts,      \* bound on the requests of a behaviour
    MaxFaults,    \* bound on the failures of a behaviour
    FaultKinds    \* the failures considered

ASSUME ConfigAssumption == MaxPuts \in Nat /\ MaxFaults \in Nat /\ "nobody" \notin Admin

Config == UNION {[fields -> Value] : fields \in SUBSET Key}
Empty  == [k \in {} |-> k]

Merge(old, new) ==
    [k \in DOMAIN old \cup DOMAIN new |-> IF k \in DOMAIN new THEN new[k] ELSE old[k]]

VARIABLES
    db,        \* devices.runtime_config, as committed
    put,       \* [Admin -> request]: the handler and what it read and computed
    lock,      \* who holds the lock of the device's row
    api,       \* the API process: starting or serving
    apiLink,   \* the command publisher is connected
    outbox,    \* paho's unacknowledged publications, in order
    retained,  \* the retained command at the broker; Empty is none
    piLink,    \* the Pi is connected and subscribed
    toPi,      \* commands on their way to the Pi, in order
    overlay,   \* config-overrides.json, and the configuration in effect
    missed,    \* history: the last command could not be written
    taken,     \* history: configurations the broker accepted
    puts, faults  \* counters for the bounds

apiVars    == <<db, put, lock, api, puts>>
brokerVars == <<outbox, apiLink, retained, taken>>
piVars     == <<piLink, toPi, overlay, missed>>
configVars == <<apiVars, brokerVars, piVars, faults, processVars>>

Idle    == [pc |-> "idle", seen |-> Empty, new |-> Empty]
Request == [pc : {"idle", "flush", "publish", "wait", "acked"}, seen : Config, new : Config]
Publication == [config : Config, by : Admin \cup {"nobody"}]

ConfigTypeOK ==
    /\ ProcessTypeOK
    /\ db \in Config /\ retained \in Config /\ overlay \in Config
    /\ put \in [Admin -> Request]
    /\ lock \in Admin \cup {"nobody"}
    /\ api \in {"starting", "serving"}
    /\ apiLink \in BOOLEAN /\ piLink \in BOOLEAN /\ missed \in BOOLEAN
    /\ outbox \in Seq(Publication)
    /\ toPi \in Seq(Config)
    /\ taken \in SUBSET Config
    /\ puts \in 0..MaxPuts /\ faults \in 0..MaxFaults

ConfigInit ==
    /\ db = Empty /\ retained = Empty /\ overlay = Empty
    /\ put = [a \in Admin |-> Idle]
    /\ lock = "nobody"
    /\ api = "serving"
    /\ apiLink = TRUE /\ piLink = TRUE /\ missed = FALSE
    /\ outbox = <<>> /\ toPi = <<>>
    /\ taken = {}
    /\ puts = 0 /\ faults = 0
    /\ ProcessInit

Fault(kind) == kind \in FaultKinds /\ faults < MaxFaults /\ faults' = faults + 1

-----------------------------------------------------------------------------
(* put_runtime_config *)

GoTo(a, pc) == put' = [put EXCEPT ![a].pc = pc]

(* An UPDATE is emitted, and the row locked, only for a changed value. *)
Changes(a) == put[a].new # put[a].seen

(* The answer is sent and the transaction over. *)
Finish(a) ==
    /\ put' = [put EXCEPT ![a] = Idle]
    /\ lock' = IF lock = a THEN "nobody" ELSE lock

(* Nobody waits any longer for a's publication, which paho keeps. *)
Disown(queue, a) ==
    [i \in DOMAIN queue |->
        [config |-> queue[i].config, by |-> IF queue[i].by = a THEN "nobody" ELSE queue[i].by]]

PutRead(a) ==
    /\ api = "serving"
    /\ put[a] = Idle
    /\ apiLink
    /\ puts < MaxPuts
    /\ puts' = puts + 1
    /\ \E body \in Config \ {Empty} :
           put' = [put EXCEPT ![a] = [pc |-> "flush", seen |-> db, new |-> Merge(db, body)]]
    /\ UNCHANGED <<db, lock, api, brokerVars, piVars, faults, processVars>>

Flush(a) ==
    /\ put[a].pc = "flush"
    /\ Changes(a) => lock = "nobody"
    /\ lock' = IF Changes(a) THEN a ELSE lock
    /\ GoTo(a, "publish")
    /\ UNCHANGED <<db, api, puts, brokerVars, piVars, faults, processVars>>

Publish(a) ==
    /\ put[a].pc = "publish"
    /\ apiLink
    /\ outbox' = Append(outbox, [config |-> put[a].new, by |-> a])
    /\ GoTo(a, "wait")
    /\ UNCHANGED <<db, lock, api, puts, apiLink, retained, taken, piVars, faults, processVars>>

(* Without a connection publish reports an error, but the message is queued. *)
PublishOffline(a) ==
    /\ put[a].pc = "publish"
    /\ ~apiLink
    /\ outbox' = Append(outbox, [config |-> put[a].new, by |-> "nobody"])
    /\ Finish(a)
    /\ UNCHANGED <<db, api, puts, apiLink, retained, taken, piVars, faults, processVars>>

(* Mutant: is_published is not looked at after the wait. *)
MutantWaitIsEnough(a) ==
    /\ put[a].pc = "wait"
    /\ Fault("pubackTimeout")
    /\ outbox' = Disown(outbox, a)
    /\ db' = put[a].new
    /\ Finish(a)
    /\ UNCHANGED <<api, puts, apiLink, retained, taken, piVars, processVars>>

PubackTimeout(a) ==
    /\ put[a].pc = "wait"
    /\ Fault("pubackTimeout")
    /\ outbox' = Disown(outbox, a)
    /\ Finish(a)
    /\ UNCHANGED <<db, api, puts, apiLink, retained, taken, piVars, processVars>>

Commit(a) ==
    /\ put[a].pc = "acked"
    /\ db' = IF Changes(a) THEN put[a].new ELSE db
    /\ Finish(a)
    /\ UNCHANGED <<api, puts, brokerVars, piVars, faults, processVars>>

DbError(a) ==
    /\ put[a].pc \in {"flush", "acked"}
    /\ Fault("dbError")
    /\ Finish(a)
    /\ UNCHANGED <<db, api, puts, brokerVars, piVars, processVars>>

-----------------------------------------------------------------------------
(* The API process and its command publisher *)

ApiCrash ==
    /\ Fault("apiCrash")
    /\ api' = "starting"
    /\ put' = [a \in Admin |-> Idle]
    /\ lock' = "nobody"
    /\ outbox' = <<>>
    /\ apiLink' = FALSE
    /\ UNCHANGED <<db, puts, retained, taken, piVars, processVars>>

(* _replay_retained_commands, before requests are served; skipped when the *)
(* publisher is not connected in time or the column is empty.              *)
Startup ==
    /\ api = "starting"
    /\ api' = "serving"
    /\ outbox' = IF apiLink /\ db # Empty
                 THEN Append(outbox, [config |-> db, by |-> "nobody"])
                 ELSE outbox
    /\ UNCHANGED <<db, put, lock, puts, apiLink, retained, taken, piVars, faults, processVars>>

ApiConnect ==
    /\ ~apiLink
    /\ apiLink' = TRUE
    /\ UNCHANGED <<apiVars, outbox, retained, taken, piVars, faults, processVars>>

ApiDisconnect ==
    /\ apiLink
    /\ Fault("linkDown")
    /\ apiLink' = FALSE
    /\ UNCHANGED <<apiVars, outbox, retained, taken, piVars, processVars>>

-----------------------------------------------------------------------------
(* The broker *)

(* It keeps the command and forwards it to a connected Pi. *)
Accept(config) ==
    /\ retained' = config
    /\ taken' = taken \cup {config}
    /\ toPi' = IF piLink THEN Append(toPi, config) ELSE toPi

Take ==
    /\ apiLink
    /\ outbox # <<>>
    /\ Accept(Head(outbox).config)
    /\ outbox' = Tail(outbox)
    /\ put' = [a \in Admin |->
                  IF Head(outbox).by = a THEN [put[a] EXCEPT !.pc = "acked"] ELSE put[a]]
    /\ UNCHANGED <<db, lock, api, puts, apiLink, piLink, overlay, missed, faults, processVars>>

(* The connection is lost before the PUBACK: the message is sent again. *)
TakeUnacknowledged ==
    /\ apiLink
    /\ outbox # <<>>
    /\ Fault("linkDown")
    /\ Accept(Head(outbox).config)
    /\ apiLink' = FALSE
    /\ UNCHANGED <<apiVars, outbox, piLink, overlay, missed, processVars>>

(* The broker comes back without its data. *)
BrokerWiped ==
    /\ Fault("brokerWiped")
    /\ retained' = Empty
    /\ apiLink' = FALSE
    /\ piLink' = FALSE
    /\ toPi' = <<>>
    /\ UNCHANGED <<apiVars, outbox, taken, overlay, missed, processVars>>

-----------------------------------------------------------------------------
(* The Pi *)

(* Mutant: it subscribes only once, so that nothing is sent on reconnection. *)
MutantSubscribeOnce ==
    /\ unit = "up"
    /\ ~piLink
    /\ piLink' = TRUE
    /\ missed' = FALSE
    /\ UNCHANGED <<apiVars, brokerVars, toPi, overlay, faults, processVars>>

(* _on_connect subscribes, and the broker sends what it retains. *)
PiConnect ==
    /\ unit = "up"
    /\ ~piLink
    /\ piLink' = TRUE
    /\ toPi' = IF retained = Empty THEN <<>> ELSE <<retained>>
    /\ missed' = FALSE
    /\ UNCHANGED <<apiVars, brokerVars, overlay, faults, processVars>>

(* A clean session: the broker keeps nothing for the Pi. *)
PiDisconnect ==
    /\ piLink
    /\ Fault("piLinkDown")
    /\ piLink' = FALSE
    /\ toPi' = <<>>
    /\ UNCHANGED <<apiVars, brokerVars, overlay, missed, processVars>>

(* Mutant: the first overlay that was written stays. *)
MutantApplyOnce ==
    /\ unit = "up"
    /\ toPi # <<>>
    /\ overlay' = IF overlay = Empty THEN Head(toPi) ELSE overlay
    /\ toPi' = Tail(toPi)
    /\ missed' = FALSE
    /\ UNCHANGED <<apiVars, brokerVars, piLink, faults, processVars>>

(* _apply_config_command: write_overlay merges, and the configuration is   *)
(* loaded anew from the file.                                              *)
Apply ==
    /\ unit = "up"
    /\ toPi # <<>>
    /\ overlay' = Merge(overlay, Head(toPi))
    /\ toPi' = Tail(toPi)
    /\ missed' = FALSE
    /\ UNCHANGED <<apiVars, brokerVars, piLink, faults, processVars>>

(* The overlay cannot be written: the command is dropped. *)
ApplyFails ==
    /\ unit = "up"
    /\ toPi # <<>>
    /\ Fault("writeError")
    /\ toPi' = Tail(toPi)
    /\ missed' = TRUE
    /\ UNCHANGED <<apiVars, brokerVars, piLink, overlay, processVars>>

(* A process that ends takes its connection and what it was sent with it. *)
ProcessStep ==
    /\ ProcessNext
    /\ IF unit' = "up"
       THEN UNCHANGED <<piLink, toPi>>
       ELSE piLink' = FALSE /\ toPi' = <<>>
    /\ UNCHANGED <<apiVars, brokerVars, overlay, missed, faults>>

-----------------------------------------------------------------------------
PutNext(a) ==
    \/ PutRead(a) \/ Flush(a) \/ Publish(a) \/ PublishOffline(a)
    \/ PubackTimeout(a) \/ Commit(a) \/ DbError(a)

ConfigNext ==
    \/ \E a \in Admin : PutNext(a)
    \/ ApiCrash \/ Startup \/ ApiConnect \/ ApiDisconnect
    \/ Take \/ TakeUnacknowledged \/ BrokerWiped
    \/ PiConnect \/ PiDisconnect \/ Apply \/ ApplyFails
    \/ ProcessStep

ConfigSpec == ConfigInit /\ [][ConfigNext]_configVars

(* Handlers run on, both paho clients reconnect, and commands are applied. *)
ConfigFairness ==
    /\ \A a \in Admin :
           WF_configVars(Flush(a) \/ Publish(a) \/ PublishOffline(a) \/ Commit(a))
    /\ WF_configVars(Startup)
    /\ WF_configVars(ApiConnect)
    /\ WF_configVars(Take)
    /\ WF_configVars(PiConnect)
    /\ WF_configVars(Apply)
    /\ ProcessFairness

FairConfigSpec == ConfigSpec /\ ConfigFairness

-----------------------------------------------------------------------------
InEffect(config) == \A k \in DOMAIN config : k \in DOMAIN overlay /\ overlay[k] = config[k]

(* What the dashboard shows was accepted by the broker before it was       *)
(* committed, whatever is lost, late, duplicated or restarted: the column  *)
(* never claims a value the device cannot come to see.                     *)
CommittedWasTaken == db = Empty \/ db \in taken

(* A connected Pi with no command on its way runs what the broker retains, *)
(* unless it could not write the overlay: commands arrive in order, and    *)
(* those missed while offline are made up for by the retained one.         *)
PiHasRetained == piLink /\ toPi = <<>> /\ ~missed => InEffect(retained)

(* When edits and failures end, the Pi settles on what the broker retains, *)
(* unless its unit is down for good or the overlay could not be written.   *)
PiCatchesUp == <>[](unit # "up" \/ missed \/ InEffect(retained))

=============================================================================
