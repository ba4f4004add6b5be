---------------------------- MODULE HistoryReset ----------------------------
(***************************************************************************)
(* scripts/reset_history.py: an operator erases the recorded history of    *)
(* some Pis and of the server while the rest of the system keeps running.  *)
(* The coordinator probes the named hosts, stops the writers, clears each  *)
(* Pi (urban_acoustics/reset_history.py) and the server                    *)
(* (backend/scripts/reset_history.py), checks that every surface reports   *)
(* zero items and starts again what it stopped.  Every remote command may  *)
(* fail, a stop also after it took effect.                                 *)
(*                                                                         *)
(* History is tracked per device: which surfaces still hold something that *)
(* was recorded before the verification.  Later frames are the new         *)
(* baseline and are left out.                                              *)
(***************************************************************************)
EXTENDS Integers, Sequences

CONSTANTS
  Pi,            \* the registered device ids
  Stranger,      \* ids an operator may name by mistake
  Host,          \* SSH targets an operator may name
  Pair,          \* the outside and the inside device of the detector
  Arguments,     \* the command lines considered
  Addresses,     \* the devices that may answer at the hosts
  Initially,     \* what is not up at first: functions from things to their state
  MaxFaults      \* bound: commands that fail and hosts that change identity

Recorder == "urban-acoustics.service"
Timer    == "urban-acoustics-cleanup.timer"
Cleanup  == "urban-acoustics-cleanup.service"
DeviceUnits      == <<Recorder, Timer, Cleanup>>
ServerStopOrder  == <<"mosquitto", "ingest", "detector", "backend">>
ServerStartOrder == <<"mosquitto", "backend", "ingest", "detector">>

Service(s) == <<"server", s>>
Elements(seq) == {seq[i] : i \in DOMAIN seq}
ServerService == {Service(s) : s \in Elements(ServerStopOrder)}
Thing == (Pi \X Elements(DeviceUnits)) \cup ServerService
\* What the coordinator names: a unit by the host it reaches it through.
Name == (Host \X Elements(DeviceUnits)) \cup ServerService

PiSurface     == {"queue", "spool"}
ServerSurface == {"rows", "aggregates", "candidates", "objects"}
CommandLine == [server : BOOLEAN, device : BOOLEAN, execute : BOOLEAN,
                hosts : Seq(Host), selected : SUBSET (Pi \cup Stranger)]

ASSUME ResetAssumption ==
  /\ Pair \subseteq Pi /\ Stranger \cap Pi = {} /\ "server" \notin Host
  /\ MaxFaults \in Nat
  /\ \A a \in Arguments : a \in CommandLine /\ (a.server \/ a.device)
  /\ Addresses \subseteq [Host -> Pi]
  /\ \A not \in Initially : \A x \in DOMAIN not : not[x] \in {"up", "restarting", "down"}

VARIABLES
  state,      \* Thing -> up | restarting (the back-off of systemd or docker) | down
  ident,      \* Host -> the device that answers there
  piHist,     \* Pi -> surfaces of the device that hold history
  broker,     \* devices with a QoS 1 message kept for the ingest session
  server,     \* surface -> devices with history in it
  args, targets, found,    \* what the attempt works on
  stopped, culprit, lost,  \* stopped; the stop that raised; starts that failed
  keys, dirty,             \* objects listed for deletion; a report was not empty
  pc, todo, failed,        \* phase, commands left, error to exit with
  strays,                  \* history: the devices a host moved to in the attempt
  faults

world   == <<state, ident, piHist, broker, server>>
attempt == <<args, targets, found>>
seen    == <<keys, dirty>>
control == <<pc, todo, failed>>
vars == <<world, attempt, stopped, culprit, lost, seen, control, strays, faults>>

Op(o, x) == [op |-> o, on |-> x]
Up(x) == state[x] = "up"
At(x) == IF x \in ServerService THEN x ELSE <<ident[x[1]], x[2]>>
Scope == IF args.selected = {} THEN Pi ELSE args.selected

-----------------------------------------------------------------------------
(* The plans: which commands run, in which order.                          *)

PiCommands == <<"wipeQueue", "wipeSpool", "reportPi">>
ServerCommands == <<"listKeys", "wipeRows", "refresh", "wipeObjects", "reportServer">>

TargetHosts == {t.host : t \in targets}
DeviceOf(h) == (CHOOSE t \in targets : t.host = h).device

\* Mutant: everything is stopped, and later started, whether it ran or not.
StopPlanOfAll(running) ==
  {Op("stop", x) : x \in (TargetHosts \X Elements(DeviceUnits))
                           \cup IF args.server THEN ServerService ELSE {}}

StopPlan(running) == {Op("stop", x) : x \in running}

ClearPlan ==
  {Op(o, h) : o \in Elements(PiCommands), h \in TargetHosts}
  \cup {Op(o, "server") : o \in IF args.server THEN Elements(ServerCommands) ELSE {}}

StartPlan(wasStopped) == {Op("start", x) : x \in wasStopped}

\* Stopped host by host as named (dict.fromkeys: the first time counts), unit by unit,
\* then the server; started server first, the units of a host in reverse.
Place(x, seq) == CHOOSE i \in DOMAIN seq : seq[i] = x /\ \A j \in 1..(i - 1) : seq[j] # x

\* Stops, the clearing of the Pis, of the server, starts.
Stage(c) ==
  CASE c.op = "stop"  -> IF c.on \in ServerService THEN 2 ELSE 1
    [] c.op = "start" -> IF c.on \in ServerService THEN 5 ELSE 6
    [] OTHER          -> IF c.on = "server" THEN 4 ELSE 3

Turn(c) ==
  CASE Stage(c) = 1 -> <<Place(c.on[1], args.hosts), Place(c.on[2], DeviceUnits)>>
    [] Stage(c) = 2 -> <<Place(c.on[2], ServerStopOrder), 0>>
    [] Stage(c) = 3 -> <<Place(c.on, args.hosts), Place(c.op, PiCommands)>>
    [] Stage(c) = 4 -> <<Place(c.op, ServerCommands), 0>>
    [] Stage(c) = 5 -> <<Place(c.on[2], ServerStartOrder), 0>>
    [] Stage(c) = 6 -> <<Place(c.on[1], args.hosts), -Place(c.on[2], DeviceUnits)>>

Before(c, d) ==
  \/ Stage(c) < Stage(d)
  \/ /\ Stage(c) = Stage(d)
     /\ \/ Turn(c)[1] < Turn(d)[1]
        \/ Turn(c)[1] = Turn(d)[1] /\ Turn(c)[2] < Turn(d)[2]

Due(c) == c \in todo /\ \A d \in todo : ~Before(d, c)

-----------------------------------------------------------------------------
Init ==
  /\ \E not \in Initially :
       state = [x \in Thing |-> IF x \in DOMAIN not THEN not[x] ELSE "up"]
  /\ ident \in Addresses
  /\ piHist = [d \in Pi |-> PiSurface]
  /\ broker = {}
  /\ server = [s \in ServerSurface |-> IF s = "candidates" THEN Pair ELSE Pi]
  /\ args \in Arguments /\ targets = {} /\ found = {}
  /\ stopped = {} /\ culprit = {} /\ lost = {} /\ keys = {} /\ dirty = FALSE
  /\ pc = "main" /\ todo = {} /\ failed = FALSE
  /\ strays = {} /\ faults = 0

(***************************************************************************)
(* The system around the coordinator.                                      *)
(***************************************************************************)
Record(d) ==
  /\ pc = "run" /\ Up(<<d, Recorder>>)
  /\ piHist' = [piHist EXCEPT ![d] = PiSurface]
  /\ UNCHANGED <<state, ident, broker, server, strays, faults>>

Publish(d) ==
  /\ Up(<<d, Recorder>>) /\ Up(Service("mosquitto"))
  /\ "queue" \in piHist[d]
  /\ piHist' = [piHist EXCEPT ![d] = @ \ {"queue"}]
  /\ broker' = broker \cup {d}
  /\ UNCHANGED <<state, ident, server, strays, faults>>

\* MinIO is not stopped: a presigned URL works while the backend is down.
PutObject(d) ==
  /\ Up(<<d, Recorder>>) /\ "spool" \in piHist[d]
  /\ piHist' = [piHist EXCEPT ![d] = @ \ {"spool"}]
  /\ server' = [server EXCEPT !["objects"] = @ \cup {d}]
  /\ UNCHANGED <<state, ident, broker, strays, faults>>

\* Real-time aggregation: a row is in the aggregate views at once.
Ingest(d) ==
  /\ Up(Service("ingest")) /\ Up(Service("mosquitto"))
  /\ d \in broker
  /\ broker' = broker \ {d}
  /\ server' = [server EXCEPT !["rows"] = @ \cup {d}, !["aggregates"] = @ \cup {d}]
  /\ UNCHANGED <<state, ident, piHist, strays, faults>>

Detect ==
  /\ Up(Service("detector")) /\ Pair \subseteq server["rows"]
  /\ server' = [server EXCEPT !["candidates"] = Pair]
  /\ UNCHANGED <<state, ident, piHist, broker, strays, faults>>

Becomes(x, from, to) ==
  /\ state[x] = from
  /\ state' = [state EXCEPT ![x] = to]
  /\ UNCHANGED <<ident, piHist, broker, server, strays, faults>>
Revive(x) == Becomes(x, "restarting", "up")
CleanupEnds(d) == Becomes(<<d, Cleanup>>, "up", "down")

\* A host name starts to resolve to another device before its device is cleared.
HostMoves(h) ==
  /\ faults < MaxFaults /\ Op("wipeQueue", h) \in todo
  /\ \E d \in Pi \ {ident[h]} : ident' = [ident EXCEPT ![h] = d] /\ strays' = strays \cup {d}
  /\ faults' = faults + 1
  /\ UNCHANGED <<state, piHist, broker, server>>

\* Bound: between two attempts the surroundings stand still.
Surroundings ==
  /\ pc \in {"run", "restore"}
  /\ \/ \E d \in Pi : Record(d) \/ Publish(d) \/ PutObject(d) \/ Ingest(d) \/ CleanupEnds(d)
     \/ \E h \in Host : HostMoves(h)
     \/ \E x \in Thing : Revive(x)
     \/ Detect
  /\ UNCHANGED <<attempt, stopped, culprit, lost, seen, control>>

-----------------------------------------------------------------------------
(* main(): the command line, the probe of the hosts, the scope.            *)

BadArguments ==
  \/ ~args.server /\ args.hosts = <<>>
  \/ args.execute /\ args.server /\ args.device /\ args.hosts = <<>>

Probed == IF args.device THEN Elements(args.hosts) ELSE {}
Duplicated == \E h, g \in Probed : h # g /\ ident[h] = ident[g]
Targets == {t \in [host : Probed, device : Scope] : ident[t.host] = t.device}

Main ==
  LET error == \/ BadArguments \/ Duplicated
               \/ ~args.server /\ args.selected # {} /\ Targets = {}
  IN /\ pc = "main"
     /\ failed' = error
     /\ IF error
        THEN pc' = "done" /\ UNCHANGED targets
        ELSE pc' = (IF args.execute THEN "inspect" ELSE "report") /\ targets' = Targets
     /\ UNCHANGED <<world, args, found, stopped, culprit, lost, seen, todo, strays, faults>>

\* The server's helper knows the devices it is asked about.
KnownToServer == args.server => args.selected \subseteq Pi

DryRun ==
  /\ pc = "report" /\ KnownToServer
  /\ pc' = "done"
  /\ UNCHANGED <<world, attempt, stopped, culprit, lost, seen, todo, failed, strays, faults>>

\* Compose file, probe, first reports, ps, is-active: nothing has been touched yet.
PreparationFails ==
  /\ \/ pc \in {"main", "report", "inspect"} /\ faults < MaxFaults /\ faults' = faults + 1
     \/ pc \in {"report", "inspect"} /\ ~KnownToServer /\ UNCHANGED faults
  /\ pc' = "done" /\ failed' = TRUE
  /\ UNCHANGED <<world, attempt, stopped, culprit, lost, seen, todo, strays>>

\* ps and is-active: what backs off between two attempts does not count.
Inspect ==
  /\ pc = "inspect" /\ KnownToServer
  /\ found' = {x \in (TargetHosts \X Elements(DeviceUnits))
                        \cup IF args.server THEN ServerService ELSE {} : Up(At(x))}
  /\ todo' = StopPlan(found') \cup ClearPlan
  /\ pc' = "run"
  /\ UNCHANGED <<world, args, targets, stopped, culprit, lost, seen, failed, strays, faults>>

-----------------------------------------------------------------------------
(* _execute(): one remote command at a time.                               *)

Command(o, x) ==
  /\ pc = "run" /\ Due(Op(o, x))
  /\ UNCHANGED <<attempt, lost, strays>>

Continue(o, x) == todo' = todo \ {Op(o, x)} /\ UNCHANGED <<pc, failed, culprit, faults>>
Raise ==
  /\ pc' = "restore" /\ todo' = StartPlan(stopped) /\ failed' = TRUE
  /\ UNCHANGED <<stopped, seen>>

Stop(x) ==
  /\ Continue("stop", x) /\ Command("stop", x)
  /\ state' = [state EXCEPT ![At(x)] = "down"]
  /\ stopped' = stopped \cup {x}
  /\ UNCHANGED <<ident, piHist, broker, server, seen>>

\* The unit is down, but the command came back with an error.
StopReplyLost(x) ==
  /\ faults < MaxFaults /\ faults' = faults + 1
  /\ Raise /\ Command("stop", x)
  /\ state' = [state EXCEPT ![At(x)] = "down"]
  /\ culprit' = {x}
  /\ UNCHANGED <<ident, piHist, broker, server>>

CommandFails ==
  /\ pc = "run" /\ todo # {} /\ Raise /\ faults < MaxFaults
  /\ faults' = faults + 1
  /\ UNCHANGED <<world, attempt, lost, culprit, strays>>

WipePi(o, surface, h) ==
  /\ Continue(o, h) /\ Command(o, h)
  /\ piHist' = [piHist EXCEPT ![ident[h]] = @ \ {surface}]
  /\ UNCHANGED <<state, ident, broker, server, stopped, seen>>
WipeQueue(h) == WipePi("wipeQueue", "queue", h)
WipeSpool(h) == WipePi("wipeSpool", "spool", h)

\* Mutant: the identity in the report is not looked at.
ReportAnyPi(h) ==
  /\ Command("reportPi", h)
  /\ dirty' = (dirty \/ piHist[ident[h]] # {})
  /\ Continue("reportPi", h)
  /\ UNCHANGED <<world, stopped, keys>>

\* The report carries the identity, which must be the one probed.
ReportPi(h) ==
  /\ Command("reportPi", h)
  /\ IF ident[h] # DeviceOf(h)
     THEN Raise /\ UNCHANGED <<culprit, faults>>
     ELSE /\ dirty' = (dirty \/ piHist[ident[h]] # {})
          /\ Continue("reportPi", h) /\ UNCHANGED <<stopped, keys>>
  /\ UNCHANGED world

\* Mutant: no device selected selects no object.
ListSelectedKeys ==
  /\ Continue("listKeys", "server") /\ Command("listKeys", "server")
  /\ keys' = server["objects"] \cap args.selected
  /\ UNCHANGED <<world, stopped, dirty>>

ListKeys ==
  /\ Continue("listKeys", "server") /\ Command("listKeys", "server")
  /\ keys' = server["objects"] \cap Scope
  /\ UNCHANGED <<world, stopped, dirty>>

WipeServer(o, wiped) ==
  /\ Continue(o, "server") /\ Command(o, "server")
  /\ server' = [s \in ServerSurface |-> server[s] \ wiped[s]]
  /\ UNCHANGED <<state, ident, piHist, broker, stopped, seen>>

Nothing == [s \in ServerSurface |-> {}]
\* Mutant: the rows of all devices are deleted.
EveryDevice == [s \in ServerSurface |-> Pi]

\* A candidate belongs to both microphones: _candidate_predicate.
InScope == [s \in ServerSurface |->
              IF s = "candidates" /\ Pair \cap Scope # {} THEN Pair ELSE Scope]
WipeRows == WipeServer("wipeRows", [InScope EXCEPT !["aggregates"] = {}, !["objects"] = {}])
\* A forced refresh rebuilds the old buckets from the rows that are left.
RefreshAggregates ==
  WipeServer("refresh", [Nothing EXCEPT !["aggregates"] = Pi \ server["rows"]])
WipeObjects == WipeServer("wipeObjects", [Nothing EXCEPT !["objects"] = keys])

ReportServer ==
  /\ Continue("reportServer", "server") /\ Command("reportServer", "server")
  /\ dirty' = (dirty \/ \E s \in ServerSurface : server[s] \cap InScope[s] # {})
  /\ UNCHANGED <<world, stopped, keys>>

AssertEmpty ==
  /\ pc = "run" /\ todo = {}
  /\ IF dirty THEN Raise
     ELSE pc' = "verified" /\ UNCHANGED <<todo, failed, stopped, seen>>
  /\ UNCHANGED <<world, attempt, culprit, lost, strays, faults>>

Restore ==
  /\ pc = "verified" /\ pc' = "restore"
  /\ todo' = StartPlan(stopped)
  /\ UNCHANGED <<world, attempt, stopped, culprit, lost, seen, failed, strays, faults>>

Start(x) ==
  /\ pc = "restore" /\ todo' = todo \ {Op("start", x)} /\ Due(Op("start", x))
  /\ \/ /\ state' = [state EXCEPT ![At(x)] = "up"]
        /\ UNCHANGED <<lost, faults>>
     \/ /\ faults < MaxFaults /\ faults' = faults + 1
        /\ lost' = lost \cup {x}
        /\ UNCHANGED state
  /\ UNCHANGED <<ident, piHist, broker, server, attempt, stopped, culprit, seen, pc, failed, strays>>

\* Mutant: a service that did not start again is no error.
FinishQuietly ==
  /\ pc = "restore" /\ todo = {}
  /\ pc' = "done" /\ UNCHANGED failed
  /\ UNCHANGED <<world, attempt, stopped, culprit, lost, seen, todo, strays, faults>>

Finish ==
  /\ pc = "restore" /\ todo = {}
  /\ pc' = "done" /\ failed' = (failed \/ lost # {})
  /\ UNCHANGED <<world, attempt, stopped, culprit, lost, seen, todo, strays, faults>>

\* The operator repeats the command until it reports success.
Rerun ==
  /\ pc = "done" /\ failed
  /\ pc' = "main" /\ failed' = FALSE /\ todo' = {}
  /\ targets' = {} /\ found' = {} /\ stopped' = {} /\ culprit' = {} /\ lost' = {}
  /\ keys' = {} /\ dirty' = FALSE /\ strays' = {}
  /\ UNCHANGED <<world, args, faults>>

Coordinator ==
  \/ Main \/ DryRun \/ PreparationFails \/ Inspect
  \/ \E x \in Name : Stop(x) \/ StopReplyLost(x) \/ Start(x)
  \/ \E h \in Host : WipeQueue(h) \/ WipeSpool(h) \/ ReportPi(h)
  \/ CommandFails
  \/ ListKeys \/ WipeRows \/ RefreshAggregates \/ WipeObjects \/ ReportServer
  \/ AssertEmpty \/ Restore \/ Finish \/ Rerun

Next == Coordinator \/ Surroundings
Spec == Init /\ [][Next]_vars
FairSpec == Spec /\ WF_vars(Coordinator)

-----------------------------------------------------------------------------
\* Types, and the bookkeeping: only what ran is stopped, only what was stopped
\* can fail to start.
ResetTypeOK ==
  /\ state \in [Thing -> {"up", "restarting", "down"}]
  /\ ident \in [Host -> Pi]
  /\ piHist \in [Pi -> SUBSET PiSurface]
  /\ broker \subseteq Pi
  /\ server \in [ServerSurface -> SUBSET Pi]
  /\ args \in Arguments /\ targets \subseteq [host : Host, device : Pi]
  /\ found \subseteq Name /\ stopped \subseteq found
  /\ culprit \subseteq Name /\ lost \subseteq stopped
  /\ keys \subseteq Pi /\ strays \subseteq Pi /\ dirty \in BOOLEAN /\ failed \in BOOLEAN
  /\ pc \in {"main", "report", "inspect", "run", "verified", "restore", "done"}

\* Nothing that could still write history of d runs.
Quiet(d) ==
  /\ ~Up(<<d, Recorder>>)
  /\ ~Up(Service("ingest")) /\ ~Up(Service("detector"))

\* What "reset complete" rests on: when the reports were accepted, a device
\* that was cleared and whose writers are still down holds nothing, and neither
\* does any surface of the server.
VerifiedMeansEmpty ==
  pc = "verified" =>
    /\ \A t \in targets : Quiet(t.device) => piHist[t.device] = {}
    /\ args.server => \A d \in Scope : Quiet(d) =>
                        \A s \in ServerSurface : d \notin server[s]

Excused(x) ==
  \/ x \in lost \cup culprit
  \/ x \in Host \X {Cleanup}          \* ends by itself
  \/ x \in Host \X Elements(DeviceUnits) /\ ident[x[1]] \in strays  \* hit by mistake

\* Whatever failed, a service that ran before runs again, or the exit code is
\* an error and the service is one whose own command failed.
RestoredOrReported ==
  pc = "done" =>
    /\ \A x \in found : Up(At(x)) \/ (failed /\ Excused(x)) \/ x \in Host \X {Cleanup}
    /\ lost \cup culprit # {} => failed

\* A reset of some devices leaves the others alone, on every surface of the
\* server: their rows, objects and, while rows are left, aggregates stay.
\* Candidates go with either microphone of the pair.
OthersKept ==
  [][\A d \in Pi, s \in ServerSurface :
       d \in server[s] /\ d \notin server'[s] =>
         d \in Scope \/ (s = "candidates" /\ Pair \cap Scope # {})
         \/ (s = "aggregates" /\ d \notin server["rows"])]_vars

\* Repeating the command gets there: an attempt that failed half-way leaves
\* nothing behind that makes the next one fail, once the command line is good
\* and names the hosts of every device in its scope.
Serviceable ==
  /\ ~BadArguments /\ ~Duplicated /\ KnownToServer
  /\ args.execute /\ args.server => Scope \subseteq {ident[h] : h \in Probed}
  /\ ~args.server /\ args.selected # {} => Targets # {}
RerunSucceeds == <>[]Serviceable => <>(pc = "done" /\ ~failed)
=============================================================================
