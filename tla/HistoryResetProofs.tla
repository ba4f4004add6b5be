------------------------- MODULE HistoryResetProofs --------------------------
(***************************************************************************)
(* What holds of a history reset for any number of Pis and hosts, every    *)
(* command line, and any number of commands that fail and hosts that come  *)
(* to answer for another device.                                           *)
(***************************************************************************)
EXTENDS HistoryReset, TLAPS

(* The commands left belong to the phase and keep their order: nothing is  *)
(* cleared before the last stop, no Pi reports before it was cleared.      *)
PlanInv ==
  /\ pc \in {"main", "report", "inspect"} => found = {}
  /\ pc = "run" => todo \subseteq StopPlan(found) \cup ClearPlan
  /\ pc = "restore" => todo \subseteq StartPlan(stopped)
  /\ pc \notin {"run", "restore"} => todo = {}
  /\ pc = "verified" => ~dirty
  /\ (\E x \in Name : Op("stop", x) \in todo) => ClearPlan \subseteq todo
  /\ \A h \in Host : Op("wipeQueue", h) \in todo => Op("reportPi", h) \in todo

(* A host stands for one device, keys and candidates stay in their scope. *)
ScopeInv ==
  /\ \A t, u \in targets : t.host = u.host => t = u
  /\ keys \subseteq Scope
  /\ server["candidates"] \subseteq Pair

(* A clean report stays true of every device whose writers are down. *)
ReportInv ==
  pc \in {"run", "verified"} /\ ~dirty =>
    /\ \A t \in targets : Op("reportPi", t.host) \notin todo =>
         /\ ident[t.host] = t.device
         /\ Quiet(t.device) => piHist[t.device] = {}
    /\ args.server /\ Op("reportServer", "server") \notin todo =>
         \A d \in Scope : Quiet(d) => \A s \in ServerSurface : d \notin server[s]

(* Two hosts come to share a device only by moving to it, and only such a  *)
(* device is stopped twice or in place of another.                         *)
Astray(x) == x \in Host \X Elements(DeviceUnits) /\ ident[x[1]] \in strays
EndsByItself(x) == x \in Host \X {Cleanup}
HostInv ==
  /\ pc \in {"report", "inspect", "run", "verified"} =>
       \A h, g \in TargetHosts : h # g /\ ident[h] = ident[g] => ident[h] \in strays
  /\ found \subseteq (TargetHosts \X Elements(DeviceUnits)) \cup ServerService

(* Where each service that ran is: still up, or on its way back. *)
ServiceInv ==
  /\ pc \notin {"restore", "done"} => lost = {} /\ culprit = {}
  /\ pc \in {"run", "verified"} =>
       \A x \in found :
         /\ x \in stopped \/ Op("stop", x) \in todo
         /\ x \in stopped \/ Up(At(x)) \/ Astray(x) \/ EndsByItself(x)
  /\ pc = "restore" =>
       /\ culprit # {} => failed
       /\ \A x \in found :
            \/ Up(At(x)) \/ Op("start", x) \in todo \/ x \in lost \/ EndsByItself(x)
            \/ failed /\ (x \in culprit \/ Astray(x))
  /\ RestoredOrReported

TypeInv == ResetTypeOK /\ PlanInv
ResetInv == TypeInv /\ ScopeInv /\ ReportInv /\ HostInv /\ ServiceInv

-----------------------------------------------------------------------------
(* The operators.                                                          *)

LEMMA PiCommandNames == Elements(PiCommands) = {"wipeQueue", "wipeSpool", "reportPi"}
<1>1. DOMAIN PiCommands = {1, 2, 3}
    BY DEF PiCommands
<1> QED
    BY <1>1 DEF Elements, PiCommands

LEMMA ServerCommandNames ==
  Elements(ServerCommands) = {"listKeys", "wipeRows", "refresh", "wipeObjects", "reportServer"}
<1>1. DOMAIN ServerCommands = {1, 2, 3, 4, 5}
    BY DEF ServerCommands
<1> QED
    BY <1>1 DEF Elements, ServerCommands

LEMMA DeviceUnitNames == Elements(DeviceUnits) = {Recorder, Timer, Cleanup}
<1>1. DOMAIN DeviceUnits = {1, 2, 3}
    BY DEF DeviceUnits
<1> QED
    BY <1>1 DEF Elements, DeviceUnits

LEMMA ServiceNames ==
  ServerService = {Service("mosquitto"), Service("ingest"), Service("detector"), Service("backend")}
<1>1. DOMAIN ServerStopOrder = {1, 2, 3, 4}
    BY DEF ServerStopOrder
<1>2. Elements(ServerStopOrder) = {"mosquitto", "ingest", "detector", "backend"}
    BY <1>1 DEF Elements, ServerStopOrder
<1> QED
    BY <1>2 DEF ServerService

(* A unit of a host is no service of the server, whatever the host is called. *)
LEMMA UnitsAreNoServices ==
  ASSUME NEW a, NEW u \in Elements(DeviceUnits)
  PROVE  <<a, u>> \notin ServerService
BY DeviceUnitNames, ServiceNames DEF Service, Recorder, Timer, Cleanup

(* At(x) is the thing that the coordinator's name x stands for. *)
LEMMA AtIsThing ==
  ASSUME ident \in [Host -> Pi], NEW x \in Name
  PROVE  /\ At(x) \in Thing
         /\ x \in ServerService => At(x) = x
         /\ x \notin ServerService =>
              /\ x \in Host \X Elements(DeviceUnits)
              /\ At(x) = <<ident[x[1]], x[2]>> /\ At(x) \notin ServerService
<1>1. CASE x \in ServerService
    BY <1>1 DEF At, Thing
<1>2. CASE x \notin ServerService
  <2>1. x \in Host \X Elements(DeviceUnits)
      BY <1>2 DEF Name
  <2>2. At(x) = <<ident[x[1]], x[2]>>
      BY <1>2 DEF At
  <2> QED
      BY <1>2, <2>1, <2>2, UnitsAreNoServices DEF Thing
<1> QED
    BY <1>1, <1>2

(* The first place of a command is its only one in a plan without repeats. *)
LEMMA PlaceIs ==
  ASSUME NEW seq, NEW i \in Nat, i \in DOMAIN seq, DOMAIN seq \subseteq Nat,
         \A j \in DOMAIN seq : seq[j] = seq[i] => j = i,
         \A j \in 1..(i - 1) : j \in DOMAIN seq
  PROVE  Place(seq[i], seq) = i
<1>1. \A j \in 1..(i - 1) : seq[j] # seq[i]
    OBVIOUS
<1> QED
    BY <1>1 DEF Place

LEMMA PlacesOfPiCommands ==
  /\ Place("wipeQueue", PiCommands) = 1
  /\ Place("reportPi", PiCommands) = 3
<1>1. /\ DOMAIN PiCommands = {1, 2, 3} /\ PiCommands[1] = "wipeQueue"
      /\ PiCommands[2] = "wipeSpool" /\ PiCommands[3] = "reportPi"
    BY DEF PiCommands
<1>2. Place(PiCommands[1], PiCommands) = 1
    BY <1>1, PlaceIs
<1>3. Place(PiCommands[3], PiCommands) = 3
    BY <1>1, PlaceIs
<1> QED
    BY <1>1, <1>2, <1>3

(* Every stop comes before every command that clears or reports. *)
LEMMA StopsComeFirst ==
  ASSUME NEW x, NEW o \in Elements(PiCommands) \cup Elements(ServerCommands), NEW y
  PROVE  Before(Op("stop", x), Op(o, y))
<1>1. o # "stop" /\ o # "start"
    BY PiCommandNames, ServerCommandNames
<1>2. Stage(Op("stop", x)) \in {1, 2} /\ Stage(Op(o, y)) \in {3, 4}
    BY <1>1 DEF Stage, Op
<1> QED
    BY <1>2 DEF Before

(* A Pi reports after it was cleared. *)
LEMMA WipeComesBeforeReport ==
  ASSUME NEW h \in Host
  PROVE  Before(Op("wipeQueue", h), Op("reportPi", h))
<1>1. h # "server"
    BY ResetAssumption
<1>2. Stage(Op("wipeQueue", h)) = 3 /\ Stage(Op("reportPi", h)) = 3
    BY <1>1 DEF Stage, Op
<1>3. /\ Turn(Op("wipeQueue", h)) = <<Place(h, args.hosts), Place("wipeQueue", PiCommands)>>
      /\ Turn(Op("reportPi", h)) = <<Place(h, args.hosts), Place("reportPi", PiCommands)>>
    BY <1>2 DEF Turn, Op
<1> QED
    BY <1>2, <1>3, PlacesOfPiCommands DEF Before

(* The commands on a host are those of the targets, all of them. *)
LEMMA InClearPlan ==
  ASSUME NEW h
  PROVE  /\ \A o : Op(o, h) \in ClearPlan /\ o \in Elements(PiCommands) => h \in TargetHosts
         /\ h \in TargetHosts => \A o \in Elements(PiCommands) : Op(o, h) \in ClearPlan
         /\ Op("wipeQueue", h) \in ClearPlan => Op("reportPi", h) \in ClearPlan
<1>1. ASSUME NEW o \in Elements(PiCommands), Op(o, h) \in ClearPlan
      PROVE  h \in TargetHosts
  <2>1. o \notin Elements(ServerCommands)
      BY PiCommandNames, ServerCommandNames
  <2>2. \A c : c \in {Op(q, "server") : q \in IF args.server THEN Elements(ServerCommands) ELSE {}}
                 => c.op \in Elements(ServerCommands)
      BY DEF Op
  <2>3. Op(o, h).op = o /\ Op(o, h).on = h
      BY DEF Op
  <2>4. Op(o, h) \in {Op(q, g) : q \in Elements(PiCommands), g \in TargetHosts}
      BY ONLY <1>1, <2>1, <2>2, <2>3 DEF ClearPlan
  <2>5. PICK q \in Elements(PiCommands), g \in TargetHosts : Op(o, h) = Op(q, g)
      BY <2>4
  <2> QED
      BY <2>5 DEF Op
<1>2. h \in TargetHosts => \A o \in Elements(PiCommands) : Op(o, h) \in ClearPlan
    BY DEF ClearPlan
<1> QED
    BY <1>1, <1>2, PiCommandNames

LEMMA Assumed ==
  /\ Pair \subseteq Pi
  /\ \A a \in Arguments : a \in CommandLine
BY ResetAssumption

(* The targets are named hosts and the devices that answer there. *)
LEMMA TargetsType ==
  ASSUME args \in Arguments, ident \in [Host -> Pi]
  PROVE  /\ Probed \subseteq Host
         /\ Targets \subseteq [host : Host, device : Pi]
<1>1. args.hosts \in Seq(Host)
    BY Assumed DEF CommandLine
<1>2. Elements(args.hosts) \subseteq Host
    BY <1>1 DEF Elements
<1>3. Probed \subseteq Host
    BY <1>2 DEF Probed
<1> QED
    BY <1>3 DEF Targets

-----------------------------------------------------------------------------
(* Types, plans and bookkeeping.                                           *)

LEMMA TypeInit == Init => TypeInv
<1> SUFFICES ASSUME Init PROVE TypeInv
    OBVIOUS
<1>1. state \in [Thing -> {"up", "restarting", "down"}]
    BY ResetAssumption DEF Init
<1>2. ident \in [Host -> Pi]
    BY ResetAssumption DEF Init
<1>3. server \in [ServerSurface -> SUBSET Pi]
    BY ResetAssumption DEF Init
<1> QED
    BY <1>1, <1>2, <1>3 DEF Init, TypeInv, ResetTypeOK, PlanInv

(* The surroundings leave the coordinator's own state alone. *)
LEMMA SurroundingsType ==
  ASSUME TypeInv, Surroundings
  PROVE  TypeInv'
<1> USE DEF TypeInv, ResetTypeOK
<1>1. UNCHANGED <<attempt, stopped, culprit, lost, seen, control>>
    BY DEF Surroundings
<1>2. PlanInv'
    BY <1>1 DEF PlanInv, StopPlan, ClearPlan, StartPlan, TargetHosts, attempt, seen, control
<1>3. ASSUME NEW d \in Pi, Record(d) \/ Publish(d) \/ PutObject(d) \/ Ingest(d)
      PROVE  ResetTypeOK'
    BY <1>1, <1>3 DEF Record, Publish, PutObject, Ingest, PiSurface, ServerSurface,
        attempt, seen, control
<1>4. ASSUME NEW x \in Thing, NEW from, NEW to \in {"up", "restarting", "down"}, Becomes(x, from, to)
      PROVE  ResetTypeOK'
    BY <1>1, <1>4 DEF Becomes, attempt, seen, control
<1>5. ASSUME NEW d \in Pi, CleanupEnds(d) PROVE ResetTypeOK'
  <2>1. <<d, Cleanup>> \in Thing
      BY DeviceUnitNames DEF Thing
  <2> QED
      BY <1>4, <1>5, <2>1 DEF CleanupEnds
<1>6. ASSUME NEW h \in Host, HostMoves(h) PROVE ResetTypeOK'
    BY <1>1, <1>6 DEF HostMoves, attempt, seen, control
<1>7. ASSUME NEW x \in Thing, Revive(x) PROVE ResetTypeOK'
    BY <1>4, <1>7 DEF Revive
<1>8. CASE Detect
  <2>1. server' \in [ServerSurface -> SUBSET Pi]
      BY <1>8, Assumed DEF Detect
  <2> QED
      BY <1>1, <1>2, <1>8, <2>1 DEF Detect, attempt, seen, control
<1> QED
    BY <1>2, <1>3, <1>5, <1>6, <1>7, <1>8 DEF Surroundings

(* What a command that clears or reports finds of the plan. *)
LEMMA ClearCommand ==
  ASSUME TypeInv, NEW o \in Elements(PiCommands) \cup Elements(ServerCommands), NEW y,
         Command(o, y)
  PROVE  /\ \A x \in Name : Op("stop", x) \notin todo
         /\ o # "stop" /\ o # "start"
         /\ Op(o, y) \in ClearPlan
<1>1. o # "stop" /\ o # "start"
    BY PiCommandNames, ServerCommandNames
<1>2. \A x \in Name : Op("stop", x) \notin todo
    BY StopsComeFirst DEF Command, Due
<1>3. Op(o, y) \in StopPlan(found) \cup ClearPlan
    BY DEF Command, Due, TypeInv, PlanInv
<1> QED
    BY <1>1, <1>2, <1>3 DEF StopPlan, Op

LEMMA TypeNext == TypeInv /\ [Next]_vars => TypeInv'
<1> SUFFICES ASSUME TypeInv, [Next]_vars PROVE TypeInv'
    OBVIOUS
<1> USE DEF TypeInv, world, attempt, seen, control
<1> DEFINE Clears == Elements(PiCommands) \cup Elements(ServerCommands)
<1>a. ASSUME pc = "run", Raise, UNCHANGED <<attempt, lost, strays>>
      PROVE  PlanInv'
  <2>1. \A c \in StartPlan(stopped) : c.op = "start"
      BY DEF StartPlan, Op
  <2>2. pc' = "restore" /\ todo' = StartPlan(stopped)' /\ todo' = StartPlan(stopped)
      BY <1>a DEF Raise, StartPlan
  <2>3. \A x : Op("stop", x) \notin todo' /\ Op("wipeQueue", x) \notin todo'
      BY <2>1, <2>2 DEF Op
  <2> QED
      BY <2>2, <2>3 DEF PlanInv
<1>b. ASSUME NEW o \in Clears, NEW y, Command(o, y), Continue(o, y),
             o = "reportPi" => Op("wipeQueue", y) \notin todo
      PROVE  PlanInv'
  <2>1. /\ \A x \in Name : Op("stop", x) \notin todo
        /\ o # "stop" /\ o # "start"
      BY <1>b, ClearCommand
  <2>2. todo' = todo \ {Op(o, y)} /\ pc' = pc /\ pc = "run"
      BY <1>b DEF Continue, Command
  <2>3. UNCHANGED <<attempt, pc>>
      BY <1>b DEF Continue, Command
  <2>4. StopPlan(found)' = StopPlan(found) /\ ClearPlan' = ClearPlan
      BY <2>3 DEF StopPlan, ClearPlan, TargetHosts
  <2>5. \A h \in Host : Op("wipeQueue", h) \in todo' => Op("reportPi", h) \in todo'
      BY <1>b, <2>2 DEF PlanInv, Op
  <2> QED
      BY <2>1, <2>2, <2>4, <2>5 DEF PlanInv
<1>1. CASE Main
  <2>1. targets' \in {targets, Targets} /\ failed' \in BOOLEAN /\ todo' = todo /\ todo = {} /\ pc = "main"
        /\ pc' \in {"done", "inspect", "report"}
        /\ UNCHANGED <<world, args, found, stopped, culprit, lost, seen, strays>>
      BY <1>1 DEF Main, PlanInv
  <2>2. targets' \subseteq [host : Host, device : Pi]
      BY <2>1, TargetsType DEF ResetTypeOK
  <2> QED
      BY <2>1, <2>2 DEF ResetTypeOK, PlanInv
<1>2. CASE DryRun
    BY <1>2 DEF DryRun, ResetTypeOK, PlanInv
<1>3. CASE PreparationFails
    BY <1>3 DEF PreparationFails, ResetTypeOK, PlanInv
<1>4. CASE Inspect
  <2>1. found' \subseteq Name /\ found' \subseteq Name'
      BY <1>4 DEF Inspect, ResetTypeOK, Name, TargetHosts
  <2>2. pc' = "run" /\ todo' = StopPlan(found)' \cup ClearPlan' /\ ClearPlan' \subseteq todo'
      BY <1>4 DEF Inspect, StopPlan, ClearPlan, TargetHosts
  <2>3. ASSUME NEW h \in Host, Op("wipeQueue", h) \in todo' PROVE Op("reportPi", h) \in todo'
    <3>1. ClearPlan' = ClearPlan
        BY <1>4 DEF Inspect, ClearPlan, TargetHosts
    <3>2. Op("wipeQueue", h) \in ClearPlan
        BY <2>2, <2>3, <3>1 DEF StopPlan, Op
    <3> QED
        BY <2>2, <3>1, <3>2, InClearPlan
  <2>4. PlanInv'
      BY <2>2, <2>3 DEF PlanInv
  <2> QED
      BY <1>4, <2>1, <2>4 DEF Inspect, ResetTypeOK, PlanInv
<1>5. ASSUME NEW x \in Name, Stop(x) PROVE TypeInv'
  <2>1. /\ Op("stop", x) \in todo /\ pc = "run" /\ pc' = pc
        /\ todo' = todo \ {Op("stop", x)}
        /\ UNCHANGED <<attempt, pc>>
      BY <1>5 DEF Stop, Command, Continue, Due
  <2>2. \A c \in ClearPlan : c.op # "stop"
      BY PiCommandNames, ServerCommandNames DEF ClearPlan, Op
  <2>3. x \in found
      BY <2>1, <2>2 DEF PlanInv, StopPlan, Op
  <2>4. StopPlan(found)' = StopPlan(found) /\ ClearPlan' = ClearPlan
      BY <2>1 DEF StopPlan, ClearPlan, TargetHosts
  <2>5. ClearPlan \subseteq todo'
      BY <2>1, <2>2 DEF PlanInv, Op
  <2>6. \A h \in Host : Op("wipeQueue", h) \in todo' => Op("reportPi", h) \in todo'
      BY <2>1 DEF PlanInv, Op
  <2>7. PlanInv'
      BY <2>1, <2>4, <2>5, <2>6 DEF PlanInv
  <2> QED
      BY <1>5, <2>3, <2>7 DEF Stop, Command, Continue, ResetTypeOK
<1>6. ASSUME NEW x \in Name, StopReplyLost(x) PROVE TypeInv'
  <2>1. PlanInv'
      BY <1>6, <1>a DEF StopReplyLost, Command
  <2> QED
      BY <1>6, <2>1 DEF StopReplyLost, Command, Raise, ResetTypeOK
<1>7. ASSUME NEW x \in Name, Start(x) PROVE TypeInv'
  <2>1. x \in stopped
      BY <1>7 DEF Start, Due, PlanInv, StartPlan, Op
  <2>2. PlanInv'
    <3>1. pc' = "restore" /\ todo' \subseteq todo /\ todo \subseteq StartPlan(stopped)'
        BY <1>7 DEF Start, PlanInv, StartPlan
    <3>2. \A y : Op("stop", y) \notin todo' /\ Op("wipeQueue", y) \notin todo'
        BY <3>1 DEF StartPlan, Op
    <3> QED
        BY <3>1, <3>2 DEF PlanInv
  <2> QED
      BY <1>7, <2>1, <2>2 DEF Start, ResetTypeOK
<1>8. ASSUME NEW h \in Host, WipeQueue(h) \/ WipeSpool(h) PROVE TypeInv'
  <2>1. ASSUME NEW o \in {"wipeQueue", "wipeSpool"}, NEW surface, WipePi(o, surface, h)
        PROVE  TypeInv'
    <3>1. PlanInv'
        BY <1>b, <2>1, PiCommandNames DEF WipePi
    <3>2. piHist' \in [Pi -> SUBSET PiSurface]
        BY <2>1 DEF WipePi, ResetTypeOK
    <3> QED
        BY <2>1, <3>1, <3>2 DEF WipePi, Command, Continue, ResetTypeOK
  <2> QED
      BY <1>8, <2>1 DEF WipeQueue, WipeSpool
<1>9. ASSUME NEW h \in Host, ReportPi(h) PROVE TypeInv'
  <2>1. Command("reportPi", h)
      BY <1>9 DEF ReportPi
  <2>2. Op("wipeQueue", h) \notin todo
      BY <2>1, WipeComesBeforeReport DEF Command, Due
  <2>3. CASE ident[h] # DeviceOf(h)
    <3>1. PlanInv'
        BY <1>9, <1>a, <2>1, <2>3 DEF ReportPi, Command
    <3> QED
        BY <1>9, <2>1, <2>3, <3>1 DEF ReportPi, Command, Raise, ResetTypeOK
  <2>4. CASE ident[h] = DeviceOf(h)
    <3>1. PlanInv'
        BY <1>9, <1>b, <2>1, <2>2, <2>4, PiCommandNames DEF ReportPi
    <3> QED
        BY <1>9, <2>1, <2>4, <3>1 DEF ReportPi, Command, Continue, ResetTypeOK
  <2> QED
      BY <2>3, <2>4
<1>10. CASE CommandFails
  <2>1. PlanInv'
      BY <1>10, <1>a DEF CommandFails
  <2> QED
      BY <1>10, <2>1 DEF CommandFails, Raise, ResetTypeOK
<1>11. CASE ListKeys
  <2>1. PlanInv'
      BY <1>11, <1>b, ServerCommandNames DEF ListKeys
  <2>2. keys' \subseteq Pi
      BY <1>11 DEF ListKeys, ResetTypeOK, ServerSurface
  <2> QED
      BY <1>11, <2>1, <2>2 DEF ListKeys, Command, Continue, ResetTypeOK
<1>12. CASE WipeRows \/ RefreshAggregates \/ WipeObjects
  <2>1. ASSUME NEW o \in {"wipeRows", "refresh", "wipeObjects"}, NEW wiped, WipeServer(o, wiped)
        PROVE  TypeInv'
    <3>1. PlanInv'
        BY <1>b, <2>1, ServerCommandNames DEF WipeServer
    <3>2. server' \in [ServerSurface -> SUBSET Pi]
        BY <2>1 DEF WipeServer, ResetTypeOK
    <3> QED
        BY <2>1, <3>1, <3>2 DEF WipeServer, Command, Continue, ResetTypeOK
  <2> QED
      BY <1>12, <2>1 DEF WipeRows, RefreshAggregates, WipeObjects
<1>13. CASE ReportServer
  <2>1. PlanInv'
      BY <1>13, <1>b, ServerCommandNames DEF ReportServer
  <2> QED
      BY <1>13, <2>1 DEF ReportServer, Command, Continue, ResetTypeOK
<1>14. CASE AssertEmpty
  <2>1. CASE dirty
    <3>1. PlanInv'
        BY <1>14, <1>a, <2>1 DEF AssertEmpty
    <3> QED
        BY <1>14, <2>1, <3>1 DEF AssertEmpty, Raise, ResetTypeOK
  <2>2. CASE ~dirty
      BY <1>14, <2>2 DEF AssertEmpty, ResetTypeOK, PlanInv
  <2> QED
      BY <2>1, <2>2
<1>15. CASE Restore
  <2>1. \A y : Op("stop", y) \notin todo' /\ Op("wipeQueue", y) \notin todo'
      BY <1>15 DEF Restore, StartPlan, Op
  <2> QED
      BY <1>15, <2>1 DEF Restore, ResetTypeOK, PlanInv, StartPlan
<1>16. CASE Finish
    BY <1>16 DEF Finish, ResetTypeOK, PlanInv
<1>17. CASE Rerun
    BY <1>17 DEF Rerun, ResetTypeOK, PlanInv
<1>18. CASE UNCHANGED vars
    BY <1>18 DEF vars, ResetTypeOK, PlanInv, StopPlan, StartPlan, ClearPlan, TargetHosts
<1> QED
    BY <1>1, <1>2, <1>3, <1>4, <1>5, <1>6, <1>7, <1>8, <1>9, <1>10, <1>11, <1>12, <1>13,
       <1>14, <1>15, <1>16, <1>17, <1>18, SurroundingsType DEF Next, Coordinator

-----------------------------------------------------------------------------
(* The surroundings.                                                       *)

(* Only a cleanup run ends; what is added of a device needs its writers up.*)
LEMMA SurroundingsStep ==
  ASSUME ResetTypeOK, Surroundings
  PROVE  /\ UNCHANGED <<args, targets, found, stopped, culprit, lost, keys, dirty, pc, todo, failed>>
         /\ pc \in {"run", "restore"}
         /\ \A x \in Thing : Up(x) => Up(x)' \/ \E d \in Pi : x = <<d, Cleanup>>
         /\ \A d \in Pi : Quiet(d) =>
              /\ piHist'[d] \subseteq piHist[d]
              /\ \A s \in ServerSurface : d \in server'[s] => d \in server[s]
         /\ server'["candidates"] \subseteq server["candidates"] \cup Pair
         /\ UNCHANGED <<ident, strays>> \/ \E h \in Host : HostMoves(h)
<1> DEFINE Rising == \A x \in Thing : Up(x) => Up(x)' \/ \E d \in Pi : x = <<d, Cleanup>>
           Calm == \A d \in Pi : Quiet(d) =>
                    /\ piHist'[d] \subseteq piHist[d]
                    /\ \A s \in ServerSurface : d \in server'[s] => d \in server[s]
           Candidates == server'["candidates"] \subseteq server["candidates"] \cup Pair
<1>1. ASSUME NEW e \in Pi, Record(e) \/ Publish(e)
      PROVE  Rising /\ Calm /\ Candidates /\ UNCHANGED <<ident, strays>>
    BY <1>1 DEF Record, Publish, Quiet, Up, ResetTypeOK
<1>2. ASSUME NEW e \in Pi, PutObject(e) \/ Ingest(e)
      PROVE  Rising /\ Calm /\ Candidates /\ UNCHANGED <<ident, strays>>
  <2>1. "candidates" \in ServerSurface /\ server'["candidates"] = server["candidates"]
      BY <1>2 DEF PutObject, Ingest, ServerSurface, ResetTypeOK
  <2> QED
      BY <1>2, <2>1 DEF PutObject, Ingest, Quiet, Up, ResetTypeOK
<1>3. ASSUME NEW x \in Thing, NEW from, NEW to, Becomes(x, from, to),
             to = "up" \/ \E d \in Pi : x = <<d, Cleanup>>
      PROVE  Rising /\ Calm /\ Candidates /\ UNCHANGED <<ident, strays>>
    BY <1>3 DEF Becomes, Up, ResetTypeOK
<1>4. ASSUME NEW d \in Pi, CleanupEnds(d)
      PROVE  Rising /\ Calm /\ Candidates /\ UNCHANGED <<ident, strays>>
  <2>1. <<d, Cleanup>> \in Thing
      BY DeviceUnitNames DEF Thing
  <2> QED
      BY <1>3, <1>4, <2>1 DEF CleanupEnds
<1>5. ASSUME NEW x \in Thing, Revive(x)
      PROVE  Rising /\ Calm /\ Candidates /\ UNCHANGED <<ident, strays>>
    BY <1>3, <1>5 DEF Revive
<1>6. ASSUME NEW h \in Host, HostMoves(h)
      PROVE  Rising /\ Calm /\ Candidates
    BY <1>6 DEF HostMoves, Up
<1>7. ASSUME Detect
      PROVE  Rising /\ Calm /\ Candidates
  <2>1. server' = [server EXCEPT !["candidates"] = Pair] /\ UNCHANGED <<state, piHist>>
        /\ Up(Service("detector"))
      BY <1>7 DEF Detect
  <2>2. Candidates
      BY <2>1 DEF ResetTypeOK, ServerSurface
  <2> QED
      BY <2>1, <2>2 DEF Quiet, Up
<1>8. Rising /\ Calm /\ Candidates /\ (UNCHANGED <<ident, strays>> \/ \E h \in Host : HostMoves(h))
    BY <1>1, <1>2, <1>4, <1>5, <1>6, <1>7 DEF Surroundings, Detect
<1> QED
    BY <1>8 DEF Surroundings, attempt, seen, control

(* What a service of the coordinator's names is, it stays, unless it ends. *)
LEMMA StaysUp ==
  ASSUME ResetTypeOK, Surroundings, NEW x \in Name, Up(At(x)), UNCHANGED ident
  PROVE  Up(At(x))' \/ EndsByItself(x)
<1>1. At(x) \in Thing /\ At(x)' = At(x)
    BY AtIsThing DEF ResetTypeOK, At
<1>2. CASE \E d \in Pi : At(x) = <<d, Cleanup>>
  <2>1. Cleanup \in Elements(DeviceUnits)
      BY DeviceUnitNames
  <2>2. x \notin ServerService
      BY <1>2, <2>1, AtIsThing, UnitsAreNoServices DEF ResetTypeOK
  <2> QED
      BY <1>2, <2>2, AtIsThing DEF EndsByItself, ResetTypeOK
<1> QED
    BY <1>1, <1>2, SurroundingsStep DEF Up

(* A device whose writers are down has been as quiet before. *)
LEMMA StaysLoud ==
  ASSUME ResetTypeOK, Surroundings, NEW d \in Pi
  PROVE  Quiet(d)' => Quiet(d)
<1>1. \A u \in {"ingest", "detector"} : Service(u) \in Thing /\ \A e \in Pi : Service(u) # <<e, Cleanup>>
    BY ServiceNames DEF Thing, Service, Cleanup
<1>2. <<d, Recorder>> \in Thing /\ \A e \in Pi : <<d, Recorder>> # <<e, Cleanup>>
    BY DeviceUnitNames DEF Thing, Recorder, Cleanup
<1> QED
    BY <1>1, <1>2, SurroundingsStep DEF Quiet

-----------------------------------------------------------------------------
(* The scope.                                                              *)

LEMMA ScopeNext == TypeInv /\ ScopeInv /\ [Next]_vars => ScopeInv'
<1> SUFFICES ASSUME TypeInv, ScopeInv, [Next]_vars PROVE ScopeInv'
    OBVIOUS
<1> USE DEF TypeInv, world, attempt, seen, control
<1>a. UNCHANGED <<args, targets, keys>> /\ server'["candidates"] \subseteq Pair => ScopeInv'
    BY DEF ScopeInv, Scope
<1>1. CASE Main
  <2>1. \A t, u \in Targets : t.host = u.host => t = u
      BY DEF Targets
  <2> QED
      BY <1>1, <2>1 DEF Main, ScopeInv, Scope
<1>2. CASE Rerun
    BY <1>2 DEF Rerun, ScopeInv, Scope
<1>3. CASE ListKeys
    BY <1>3 DEF ListKeys, Command, ScopeInv, Scope
<1>4. ASSUME NEW o, NEW wiped, WipeServer(o, wiped) PROVE ScopeInv'
    BY <1>4, <1>a DEF WipeServer, Command, ScopeInv, ServerSurface
<1>5. CASE Surroundings
    BY <1>5, <1>a, SurroundingsStep DEF ScopeInv
<1>6. UNCHANGED <<args, targets, keys, server>> => ScopeInv'
    BY <1>a DEF ScopeInv
<1> QED
    BY <1>1, <1>2, <1>3, <1>4, <1>5, <1>6 DEF Next, Coordinator, DryRun, PreparationFails, Inspect,
        Stop, StopReplyLost, Start, WipeQueue, WipeSpool, WipePi, ReportPi, CommandFails, Raise,
        Command, Continue, WipeRows, RefreshAggregates, WipeObjects, ReportServer, AssertEmpty,
        Restore, Finish, vars

-----------------------------------------------------------------------------
(* The reports.                                                            *)

(* Commands before the reports only take history away. *)
LEMMA ReportNext ==
  TypeInv /\ ScopeInv /\ ReportInv /\ [Next]_vars => ReportInv'
<1> SUFFICES ASSUME TypeInv, ScopeInv, ReportInv, [Next]_vars PROVE ReportInv'
    OBVIOUS
<1> USE DEF TypeInv, world, attempt, seen, control
<1> DEFINE PiDone(t) == Op("reportPi", t.host) \notin todo
           ServerDone == args.server /\ Op("reportServer", "server") \notin todo
           Active == pc \in {"run", "verified"} /\ ~dirty
           PiClean(t) == ident[t.host] = t.device /\ (Quiet(t.device) => piHist[t.device] = {})
           ServerClean == \A d \in Scope : Quiet(d) => \A s \in ServerSurface : d \notin server[s]
<1>a. ReportInv <=> (Active => (\A t \in targets : PiDone(t) => PiClean(t)) /\ (ServerDone => ServerClean))
    BY DEF ReportInv
<1>b. ReportInv' <=> (Active' => (\A t \in targets' : PiDone(t)' => PiClean(t)')
                                 /\ (ServerDone' => ServerClean'))
    BY DEF ReportInv
<1>c. \A t \in targets : t.host \in TargetHosts /\ t.host \in Host /\ t.device \in Pi
                          /\ DeviceOf(t.host) = t.device
  <2>1. \A t \in targets : t.host \in TargetHosts /\ t.host \in Host /\ t.device \in Pi
      BY DEF TargetHosts, ResetTypeOK
  <2>2. ASSUME NEW t \in targets PROVE DeviceOf(t.host) = t.device
      BY DEF DeviceOf, ScopeInv
  <2> QED
      BY <2>1, <2>2
<1>d. pc' \notin {"run", "verified"} => ReportInv'
    BY DEF ReportInv
(* A step that keeps the world as quiet and only takes away. *)
<1>e. ASSUME UNCHANGED <<args, targets, ident>>, Active' => Active,
             \A d \in Pi : Quiet(d)' => Quiet(d),
             \A d \in Pi : Quiet(d) => piHist'[d] \subseteq piHist[d],
             \A d \in Pi, s \in ServerSurface : Quiet(d) /\ d \in server'[s] => d \in server[s]
      PROVE  /\ Active' => \A t \in targets : PiDone(t) => PiClean(t)'
             /\ Active' /\ ServerDone => ServerClean'
  <2>1. ASSUME Active', NEW t \in targets, PiDone(t) PROVE PiClean(t)'
      BY <1>a, <1>c, <1>e, <2>1
  <2>2. ASSUME Active', ServerDone PROVE ServerClean'
    <3>1. Scope' = Scope
        BY <1>e DEF Scope
    <3>2. \A s \in ServerSurface : server'[s] \subseteq Pi
        BY TypeNext DEF ResetTypeOK
    <3> QED
        BY <1>a, <1>e, <2>2, <3>1, <3>2
  <2> QED
      BY <2>1, <2>2
<1>f. UNCHANGED state => \A d \in Pi : Quiet(d)' => Quiet(d)
    BY DEF Quiet, Up
<1>g. ASSUME NEW o \in Elements(PiCommands) \cup Elements(ServerCommands), NEW y,
             Continue(o, y), UNCHANGED args, o \notin {"reportPi", "reportServer"}
      PROVE  (\A t : PiDone(t)' => PiDone(t)) /\ (ServerDone' => ServerDone)
    BY <1>g DEF Continue, Op
<1>1. CASE Surroundings
  <2>1. UNCHANGED <<args, targets, dirty, pc, todo>>
      BY <1>1, SurroundingsStep
  <2>2. CASE UNCHANGED ident
      BY <1>1, <1>b, <1>e, <2>1, <2>2, SurroundingsStep, StaysLoud
  <2>3. ASSUME NEW h \in Host, HostMoves(h) PROVE ReportInv'
    <3>1. UNCHANGED <<state, piHist, server>> /\ Op("reportPi", h) \in todo
          /\ \A g \in Host \ {h} : ident'[g] = ident[g]
        BY <2>3 DEF HostMoves, PlanInv, ResetTypeOK
    <3>2. ASSUME Active', NEW t \in targets, PiDone(t) PROVE PiClean(t)'
        BY <1>a, <1>c, <2>1, <3>1, <3>2 DEF Quiet, Up
    <3>3. ServerClean => ServerClean'
        BY <2>1, <3>1 DEF Quiet, Up, Scope
    <3> QED
        BY <1>a, <1>b, <2>1, <3>2, <3>3
  <2> QED
      BY <1>1, <2>2, <2>3, SurroundingsStep
<1>2. CASE Inspect
  <2>1. ClearPlan \subseteq todo' /\ UNCHANGED <<args, targets>>
      BY <1>2 DEF Inspect
  <2> QED
      BY <1>b, <1>c, <2>1, InClearPlan, PiCommandNames, ServerCommandNames DEF ClearPlan
<1>3. ASSUME NEW x \in Name, Stop(x) PROVE ReportInv'
  <2>1. Op("stop", x) \in todo /\ todo' = todo \ {Op("stop", x)} /\ UNCHANGED <<args, targets>>
      BY <1>3 DEF Stop, Command, Continue, Due
  <2>2. ClearPlan \subseteq todo' \cup {Op("stop", x)}
      BY <2>1 DEF PlanInv
  <2>3. \A t \in targets : Op("reportPi", t.host) \in todo'
    <3>1. \A t \in targets : Op("reportPi", t.host) \in ClearPlan
        BY <1>c, InClearPlan, PiCommandNames
    <3> QED
        BY <2>2, <3>1 DEF Op
  <2>4. args.server => Op("reportServer", "server") \in todo'
      BY <2>2, ServerCommandNames DEF ClearPlan, Op
  <2> QED
      BY <1>b, <2>1, <2>3, <2>4
<1>4. ASSUME NEW h \in Host, WipeQueue(h) \/ WipeSpool(h) PROVE ReportInv'
  <2>1. ASSUME NEW o \in {"wipeQueue", "wipeSpool"}, NEW surface, WipePi(o, surface, h)
        PROVE  ReportInv'
    <3>1. \A d \in Pi : piHist'[d] \subseteq piHist[d]
        BY <2>1 DEF WipePi, ResetTypeOK
    <3>2. UNCHANGED <<args, targets, ident, state, server, dirty, pc>> /\ Continue(o, h)
        BY <2>1 DEF WipePi, Command, Continue
    <3> QED
        BY <1>b, <1>e, <1>f, <1>g, <3>1, <3>2, PiCommandNames
  <2> QED
      BY <1>4, <2>1 DEF WipeQueue, WipeSpool
<1>5. ASSUME NEW h \in Host, ReportPi(h), ident[h] = DeviceOf(h) PROVE ReportInv'
  <2>1. UNCHANGED <<args, targets, ident, state, piHist, server, pc>>
        /\ todo' = todo \ {Op("reportPi", h)} /\ dirty' = (dirty \/ piHist[ident[h]] # {})
      BY <1>5 DEF ReportPi, Command, Continue
  <2>2. Active' => Active /\ piHist[ident[h]] = {}
      BY <2>1 DEF ResetTypeOK
  <2>3. ASSUME Active', NEW t \in targets, PiDone(t)' PROVE PiClean(t)'
    <3>1. CASE t.host = h
        BY <1>5, <1>c, <2>1, <2>2, <2>3, <3>1
    <3>2. CASE t.host # h
      <4>1. PiDone(t)
          BY <2>1, <2>3, <3>2 DEF Op
      <4> QED
          BY <1>a, <2>1, <2>2, <2>3, <4>1 DEF Quiet, Up
    <3> QED
        BY <3>1, <3>2
  <2>4. Active' /\ ServerDone' => ServerClean'
    <3>1. ServerDone' => ServerDone
        BY <2>1 DEF Op
    <3> QED
        BY <1>a, <2>1, <2>2, <3>1 DEF Quiet, Up, Scope
  <2> QED
      BY <1>b, <2>1, <2>3, <2>4
<1>6. CASE ListKeys
  <2>1. UNCHANGED <<args, targets, ident, state, piHist, server, dirty, pc>> /\ Continue("listKeys", "server")
      BY <1>6 DEF ListKeys, Command, Continue
  <2> QED
      BY <1>b, <1>e, <1>f, <1>g, <2>1, ServerCommandNames
<1>7. ASSUME NEW o \in {"wipeRows", "refresh", "wipeObjects"}, NEW wiped, WipeServer(o, wiped)
      PROVE  ReportInv'
  <2>1. \A s \in ServerSurface : server'[s] \subseteq server[s]
      BY <1>7 DEF WipeServer
  <2>2. UNCHANGED <<args, targets, ident, state, piHist, dirty, pc>> /\ Continue(o, "server")
      BY <1>7 DEF WipeServer, Command, Continue
  <2> QED
      BY <1>b, <1>e, <1>f, <1>g, <2>1, <2>2, ServerCommandNames
<1>8. CASE ReportServer
  <2>1. UNCHANGED <<args, targets, ident, state, piHist, server, pc>>
        /\ todo' = todo \ {Op("reportServer", "server")}
        /\ dirty' = (dirty \/ \E s \in ServerSurface : server[s] \cap InScope[s] # {})
      BY <1>8 DEF ReportServer, Command, Continue
  <2>2. Active' => Active /\ \A s \in ServerSurface : server[s] \cap InScope[s] = {}
      BY <2>1 DEF ResetTypeOK
  <2>3. ASSUME Active', NEW t \in targets, PiDone(t)' PROVE PiClean(t)'
    <3>1. PiDone(t)
        BY <2>1, <2>3 DEF Op
    <3> QED
        BY <1>a, <2>1, <2>2, <2>3, <3>1 DEF Quiet, Up
  <2>4. ASSUME Active', NEW d \in Scope, NEW s \in ServerSurface PROVE d \notin server[s]
    <3>1. CASE s = "candidates" /\ Pair \cap Scope # {}
      <4>1. InScope[s] = Pair /\ server[s] \subseteq Pair
          BY <3>1 DEF InScope, ScopeInv
      <4> QED
          BY <2>2, <2>4, <4>1
    <3>2. CASE ~(s = "candidates" /\ Pair \cap Scope # {})
      <4>1. InScope[s] = Scope
          BY <3>2 DEF InScope
      <4> QED
          BY <2>2, <2>4, <4>1
    <3> QED
        BY <3>1, <3>2
  <2>5. Active' => ServerClean'
      BY <2>1, <2>4 DEF Scope
  <2> QED
      BY <1>b, <2>1, <2>3, <2>5
<1>9. CASE AssertEmpty
  <2>1. CASE dirty
      BY <1>9, <1>d, <2>1 DEF AssertEmpty, Raise
  <2>2. CASE ~dirty
    <3>1. UNCHANGED <<args, targets, ident, state, piHist, server, dirty, todo>> /\ pc = "run"
        BY <1>9, <2>2 DEF AssertEmpty
    <3> QED
        BY <1>b, <1>e, <1>f, <3>1
  <2> QED
      BY <2>1, <2>2
<1>10. CASE UNCHANGED vars
  <2>1. UNCHANGED <<args, targets, ident, state, piHist, server, dirty, todo, pc>>
      BY <1>10 DEF vars
  <2> QED
      BY <1>b, <1>e, <1>f, <2>1
<1>11. CASE Main \/ DryRun \/ PreparationFails \/ CommandFails \/ Restore \/ Finish \/ Rerun
    BY <1>11, <1>d DEF Main, DryRun, PreparationFails, CommandFails, Raise, Restore, Finish, Rerun
<1>12. ASSUME NEW x \in Name, StopReplyLost(x) \/ Start(x) PROVE ReportInv'
    BY <1>12, <1>d DEF StopReplyLost, Raise, Start
<1>13. ASSUME NEW h \in Host, ReportPi(h), ident[h] # DeviceOf(h) PROVE ReportInv'
    BY <1>13, <1>d DEF ReportPi, Raise
<1> HIDE DEF PiDone, ServerDone, Active, PiClean, ServerClean
<1> QED
    BY <1>1, <1>2, <1>3, <1>4, <1>5, <1>6, <1>7, <1>8, <1>9, <1>10, <1>11, <1>12, <1>13
    DEF Next, Coordinator, WipeRows, RefreshAggregates, WipeObjects

-----------------------------------------------------------------------------
(* The hosts.                                                              *)

LEMMA HostNext == TypeInv /\ HostInv /\ [Next]_vars => HostInv'
<1> SUFFICES ASSUME TypeInv, HostInv, [Next]_vars PROVE HostInv'
    OBVIOUS
<1> USE DEF TypeInv, world, attempt, seen, control
<1> DEFINE Phase == {"report", "inspect", "run", "verified"}
           Apart == \A h, g \in TargetHosts : h # g /\ ident[h] = ident[g] => ident[h] \in strays
           Named == found \subseteq (TargetHosts \X Elements(DeviceUnits)) \cup ServerService
<1>a. (HostInv <=> (pc \in Phase => Apart) /\ Named) /\ (HostInv' <=> (pc' \in Phase => Apart') /\ Named')
    BY DEF HostInv
<1>b. TargetHosts \subseteq Host /\ (UNCHANGED targets => TargetHosts' = TargetHosts)
    BY DEF TargetHosts, ResetTypeOK
<1>1. ASSUME UNCHANGED <<ident, targets, found, strays>>, pc' \in Phase => pc \in Phase
      PROVE  HostInv'
    BY <1>1, <1>a, <1>b
<1>2. CASE Main
  <2>1. found = {} /\ found' = {}
      BY <1>2 DEF Main, PlanInv
  <2>2. CASE pc' = "done"
      BY <1>a, <2>1, <2>2
  <2>3. CASE pc' # "done"
    <3>1. ~Duplicated /\ targets' = Targets /\ UNCHANGED ident
        BY <1>2, <2>3 DEF Main
    <3>2. TargetHosts' \subseteq Probed
        BY <3>1 DEF TargetHosts, Targets
    <3>3. \A h, g \in Probed : h # g => ident[h] # ident[g]
        BY <3>1 DEF Duplicated
    <3> QED
        BY <1>a, <2>1, <3>1, <3>2, <3>3
  <2> QED
      BY <2>2, <2>3
<1>3. CASE Inspect
  <2>1. found' \subseteq (TargetHosts \X Elements(DeviceUnits)) \cup ServerService
        /\ UNCHANGED <<ident, targets, strays>> /\ pc = "inspect"
      BY <1>3 DEF Inspect
  <2> QED
      BY <1>a, <1>b, <2>1
<1>4. CASE Surroundings
  <2>1. UNCHANGED <<targets, found, pc>>
      BY <1>4, SurroundingsStep
  <2>2. CASE UNCHANGED <<ident, strays>>
      BY <1>1, <2>1, <2>2
  <2>3. ASSUME NEW k \in Host, HostMoves(k) PROVE HostInv'
    <3>1. PICK d \in Pi : ident' = [ident EXCEPT ![k] = d] /\ strays' = strays \cup {d}
        BY <2>3 DEF HostMoves
    <3>2. \A h \in Host : ident'[h] = IF h = k THEN d ELSE ident[h]
        BY <3>1 DEF ResetTypeOK
    <3> QED
        BY <1>a, <1>b, <2>1, <3>1, <3>2
  <2> QED
      BY <1>4, <2>2, <2>3, SurroundingsStep
<1>5. CASE Rerun
    BY <1>5, <1>a DEF Rerun
<1>6. CASE UNCHANGED vars
    BY <1>6, <1>1 DEF vars
<1>7. CASE DryRun \/ PreparationFails \/ CommandFails \/ ListKeys \/ WipeRows \/ RefreshAggregates
           \/ WipeObjects \/ ReportServer \/ AssertEmpty \/ Restore \/ Finish
  <2>1. UNCHANGED <<ident, targets, found, strays>>
      BY <1>7 DEF DryRun, PreparationFails, CommandFails, ListKeys, WipeRows, RefreshAggregates,
          WipeObjects, WipeServer, ReportServer, AssertEmpty, Raise, Restore, Finish, Command
  <2>2. pc' \in Phase => pc \in Phase
      BY <1>7 DEF DryRun, PreparationFails, CommandFails, ListKeys, WipeRows, RefreshAggregates,
          WipeObjects, WipeServer, ReportServer, AssertEmpty, Raise, Restore, Finish, Continue
  <2> QED
      BY <1>1, <2>1, <2>2
<1>8. ASSUME NEW x \in Name, Stop(x) \/ StopReplyLost(x) \/ Start(x) PROVE HostInv'
    BY <1>8, <1>1 DEF Stop, StopReplyLost, Start, Command, Continue, Raise
<1>9. ASSUME NEW h \in Host, WipeQueue(h) \/ WipeSpool(h) \/ ReportPi(h) PROVE HostInv'
    BY <1>9, <1>1 DEF WipeQueue, WipeSpool, WipePi, ReportPi, Command, Continue, Raise
<1> HIDE DEF Phase, Apart, Named
<1> QED
    BY <1>2, <1>3, <1>4, <1>5, <1>6, <1>7, <1>8, <1>9 DEF Next, Coordinator

(* Two names stand for one thing only where a host came to stray. *)
LEMMA SameThing ==
  ASSUME ResetTypeOK, HostInv, pc = "run", NEW x \in found, NEW y \in found,
         x # y, At(x) = At(y)
  PROVE  Astray(x)
<1>1. x \in Name /\ y \in Name /\ ident \in [Host -> Pi]
    BY DEF ResetTypeOK
<1>2. x \notin ServerService /\ y \notin ServerService
    BY <1>1, AtIsThing
<1>3. /\ x \in Host \X Elements(DeviceUnits) /\ y \in Host \X Elements(DeviceUnits)
      /\ ident[x[1]] = ident[y[1]] /\ x[2] = y[2]
    BY <1>1, <1>2, AtIsThing
<1>4. x[1] \in TargetHosts /\ y[1] \in TargetHosts /\ x[1] # y[1]
    BY <1>2, <1>3 DEF HostInv
<1> QED
    BY <1>3, <1>4 DEF HostInv, Astray

-----------------------------------------------------------------------------
(* The services.                                                           *)

LEMMA ServiceNext == TypeInv /\ HostInv /\ ServiceInv /\ [Next]_vars => ServiceInv'
<1> SUFFICES ASSUME TypeInv, HostInv, ServiceInv, [Next]_vars PROVE ServiceInv'
    OBVIOUS
<1> USE DEF TypeInv, world, attempt, seen, control
<1> DEFINE Waits(x) == /\ x \in stopped \/ Op("stop", x) \in todo
                       /\ x \in stopped \/ Up(At(x)) \/ Astray(x) \/ EndsByItself(x)
           Returns(x) == \/ Up(At(x)) \/ Op("start", x) \in todo \/ x \in lost \/ EndsByItself(x)
                         \/ failed /\ (x \in culprit \/ Astray(x))
<1>a. /\ pc \notin {"restore", "done"} => lost = {} /\ culprit = {}
      /\ pc \in {"run", "verified"} => \A x \in found : Waits(x)
      /\ pc = "restore" => (culprit # {} => failed) /\ \A x \in found : Returns(x)
    BY DEF ServiceInv
<1>b. ASSUME pc' \in {"run", "verified"}, lost' = {}, culprit' = {}, \A x \in found' : Waits(x)'
      PROVE  ServiceInv'
    BY <1>b DEF ServiceInv, RestoredOrReported
<1>c. ASSUME pc' = "restore", culprit' # {} => failed', \A x \in found' : Returns(x)'
      PROVE  ServiceInv'
    BY <1>c DEF ServiceInv, RestoredOrReported
<1>d. ASSUME pc' \notin {"run", "verified", "restore"}, found' = {}, lost' = {}, culprit' = {}
      PROVE  ServiceInv'
    BY <1>d DEF ServiceInv, RestoredOrReported
<1>e. /\ found \subseteq Name /\ stopped \subseteq found /\ ident \in [Host -> Pi] /\ lost \subseteq stopped
      /\ \A x \in Name : At(x) \in Thing
      /\ UNCHANGED ident => \A x : At(x)' = At(x)
    BY AtIsThing DEF ResetTypeOK, At
<1> HIDE DEF Waits, Returns
(* A command raised; it left no trace unless it was a stop.                *)
<1>f. ASSUME pc = "run", Raise, UNCHANGED <<ident, found, lost, strays>>,
             NEW Y \in SUBSET Name, culprit' = Y,
             \A x \in found : Up(At(x)) /\ x \notin Y => Up(At(x))' \/ Astray(x)
      PROVE  ServiceInv'
  <2>1. pc' = "restore" /\ failed' = TRUE /\ todo' = StartPlan(stopped)
      BY <1>f DEF Raise
  <2>2. ASSUME NEW x \in found PROVE Returns(x)'
    <3>1. CASE x \in stopped
        BY <2>1, <3>1 DEF Returns, StartPlan
    <3>2. CASE x \notin stopped
      <4>1. Up(At(x)) \/ Astray(x) \/ EndsByItself(x)
          BY <1>a, <1>f, <3>2 DEF Waits
      <4>2. Astray(x) => Astray(x)'
          BY <1>f DEF Astray
      <4> QED
          BY <1>f, <2>1, <4>1, <4>2 DEF Returns, EndsByItself
    <3> QED
        BY <3>1, <3>2
  <2> QED
      BY <1>c, <1>f, <2>1, <2>2
(* A command other than a stop went through. *)
<1>g. ASSUME pc = "run", NEW o, NEW y, o # "stop", Continue(o, y),
             UNCHANGED <<state, ident, found, stopped, lost, strays>>
      PROVE  ServiceInv'
  <2>1. pc' = "run" /\ culprit' = culprit /\ todo' = todo \ {Op(o, y)}
      BY <1>g DEF Continue
  <2>2. ASSUME NEW x \in found PROVE Waits(x)'
      BY <1>a, <1>e, <1>g, <2>1 DEF Waits, Up, Astray, EndsByItself, Op
  <2> QED
      BY <1>a, <1>b, <1>g, <2>1, <2>2
<1>1. CASE Main \/ DryRun \/ PreparationFails
  <2>1. pc \in {"main", "report", "inspect"} /\ UNCHANGED <<found, lost, culprit>>
        /\ pc' \in {"done", "report", "inspect"}
      BY <1>1 DEF Main, DryRun, PreparationFails
  <2> QED
      BY <1>a, <1>d, <2>1 DEF PlanInv
<1>2. CASE Inspect
  <2>1. pc = "inspect" /\ pc' = "run" /\ todo' = StopPlan(found') \cup ClearPlan
        /\ UNCHANGED <<state, ident, stopped, lost, culprit>>
        /\ \A x \in found' : Up(At(x))
      BY <1>2 DEF Inspect
  <2>2. ASSUME NEW x \in found' PROVE Waits(x)'
      BY <1>e, <2>1, <2>2 DEF Waits, StopPlan, Up
  <2> QED
      BY <1>a, <1>b, <2>1, <2>2
<1>3. ASSUME NEW y \in Name, Stop(y) PROVE ServiceInv'
  <2>1. /\ pc = "run" /\ pc' = "run" /\ todo' = todo \ {Op("stop", y)} /\ stopped' = stopped \cup {y}
        /\ state' = [state EXCEPT ![At(y)] = "down"]
        /\ UNCHANGED <<ident, found, lost, culprit, strays>> /\ y \in found'
      BY <1>3, TypeNext DEF Stop, Command, Continue, ResetTypeOK
  <2>2. ASSUME NEW x \in found PROVE Waits(x)'
    <3>1. CASE x = y
        BY <2>1, <3>1 DEF Waits
    <3>2. CASE x # y
      <4>1. x \in stopped' \/ Op("stop", x) \in todo'
          BY <1>a, <2>1, <3>2 DEF Waits, Op
      <4>2. x \in stopped \/ Up(At(x)) \/ Astray(x) \/ EndsByItself(x)
          BY <1>a, <2>1 DEF Waits
      <4>3. At(x) = At(y) => Astray(x)
          BY <2>1, <3>2, SameThing
      <4>4. At(x) # At(y) /\ Up(At(x)) => Up(At(x))'
          BY <1>e, <2>1 DEF Up, ResetTypeOK
      <4> QED
          BY <2>1, <4>1, <4>2, <4>3, <4>4 DEF Waits, Astray, EndsByItself
    <3> QED
        BY <3>1, <3>2
  <2> QED
      BY <1>a, <1>b, <2>1, <2>2
<1>4. ASSUME NEW y \in Name, StopReplyLost(y) PROVE ServiceInv'
  <2>1. /\ pc = "run" /\ Raise /\ culprit' = {y} /\ Op("stop", y) \in todo
        /\ state' = [state EXCEPT ![At(y)] = "down"]
        /\ UNCHANGED <<ident, found, lost, strays>>
      BY <1>4 DEF StopReplyLost, Command, Due
  <2>2. y \in found
    <3>1. \A c \in ClearPlan : c.op # "stop"
        BY PiCommandNames, ServerCommandNames DEF ClearPlan, Op
    <3> QED
        BY <2>1, <3>1 DEF PlanInv, StopPlan, Op
  <2>3. ASSUME NEW x \in found, Up(At(x)), x # y PROVE Up(At(x))' \/ Astray(x)
    <3>1. At(x) = At(y) => Astray(x)
        BY <2>1, <2>2, <2>3, SameThing
    <3>2. At(x) # At(y) => Up(At(x))'
        BY <1>e, <2>1, <2>3 DEF Up, ResetTypeOK
    <3> QED
        BY <3>1, <3>2
  <2> QED
      BY <1>f, <2>1, <2>3
<1>5. ASSUME NEW y \in Name, Start(y) PROVE ServiceInv'
  <2>1. /\ pc = "restore" /\ pc' = "restore" /\ todo' = todo \ {Op("start", y)}
        /\ UNCHANGED <<ident, found, culprit, failed, strays>>
      BY <1>5 DEF Start
  <2>2. \/ state' = [state EXCEPT ![At(y)] = "up"] /\ lost' = lost
        \/ state' = state /\ lost' = lost \cup {y}
      BY <1>5 DEF Start
  <2>3. ASSUME NEW x \in found PROVE Returns(x)'
    <3>1. At(x) \in Thing /\ At(x)' = At(x)
        BY <1>e, <2>1
    <3>2. Up(At(x)) => Up(At(x))'
        BY <2>2, <3>1 DEF Up, ResetTypeOK
    <3>3. CASE x = y
        BY <2>2, <3>1, <3>3 DEF Returns, Up, ResetTypeOK
    <3>4. CASE x # y
      <4>1. Op("start", x) \in todo => Op("start", x) \in todo'
          BY <2>1, <3>4 DEF Op
      <4> QED
          BY <1>a, <2>1, <2>2, <3>2, <4>1 DEF Returns, Astray, EndsByItself
    <3> QED
        BY <3>3, <3>4
  <2> QED
      BY <1>a, <1>c, <2>1, <2>3
<1>6. ASSUME NEW h \in Host, WipeQueue(h) \/ WipeSpool(h) \/ ReportPi(h) PROVE ServiceInv'
  <2>1. ASSUME NEW o \in {"wipeQueue", "wipeSpool"}, NEW surface, WipePi(o, surface, h) PROVE ServiceInv'
      BY <1>g, <2>1 DEF WipePi, Command
  <2>2. CASE ReportPi(h) /\ ident[h] = DeviceOf(h)
      BY <1>g, <2>2 DEF ReportPi, Command
  <2>3. CASE ReportPi(h) /\ ident[h] # DeviceOf(h)
    <3>1. pc = "run" /\ Raise /\ UNCHANGED <<state, ident, found, lost, strays>> /\ culprit' = culprit
        BY <2>3 DEF ReportPi, Command
    <3> QED
        BY <1>a, <1>e, <1>f, <3>1 DEF Up
  <2> QED
      BY <1>6, <2>1, <2>2, <2>3 DEF WipeQueue, WipeSpool
<1>7. CASE CommandFails
  <2>1. pc = "run" /\ Raise /\ UNCHANGED <<state, ident, found, lost, strays>> /\ culprit' = culprit
      BY <1>7 DEF CommandFails
  <2> QED
      BY <1>a, <1>e, <1>f, <2>1 DEF Up
<1>8. CASE ListKeys \/ ReportServer
    BY <1>8, <1>g DEF ListKeys, ReportServer, Command
<1>9. ASSUME NEW o \in {"wipeRows", "refresh", "wipeObjects"}, NEW wiped, WipeServer(o, wiped)
      PROVE  ServiceInv'
    BY <1>9, <1>g DEF WipeServer, Command
<1>10. CASE AssertEmpty
  <2>1. pc = "run" /\ UNCHANGED <<state, ident, found, lost, strays>> /\ culprit' = culprit
      BY <1>10 DEF AssertEmpty
  <2>2. CASE dirty
    <3>1. Raise
        BY <1>10, <2>2 DEF AssertEmpty
    <3> QED
        BY <1>a, <1>e, <1>f, <2>1, <3>1 DEF Up
  <2>3. CASE ~dirty
    <3>1. pc' = "verified" /\ UNCHANGED <<todo, stopped>>
        BY <1>10, <2>3 DEF AssertEmpty
    <3>2. ASSUME NEW x \in found PROVE Waits(x)'
        BY <1>a, <1>e, <2>1, <3>1 DEF Waits, Up, Astray, EndsByItself
    <3> QED
        BY <1>a, <1>b, <2>1, <3>1, <3>2
  <2> QED
      BY <2>2, <2>3
<1>11. CASE Restore
  <2>1. pc = "verified" /\ pc' = "restore" /\ todo' = StartPlan(stopped) /\ todo = {}
        /\ UNCHANGED <<found, culprit>>
      BY <1>11 DEF Restore, PlanInv
  <2>2. ASSUME NEW x \in found PROVE Returns(x)'
      BY <1>a, <2>1 DEF Waits, Returns, StartPlan
  <2> QED
      BY <1>a, <1>c, <2>1, <2>2
<1>12. CASE Finish
  <2>1. pc = "restore" /\ pc' = "done" /\ todo = {} /\ failed' = (failed \/ lost # {})
        /\ UNCHANGED <<state, ident, found, lost, culprit, strays>>
      BY <1>12 DEF Finish
  <2>2. failed \in BOOLEAN
      BY DEF ResetTypeOK
  <2>3. ASSUME NEW x \in found
        PROVE  Up(At(x))' \/ (failed' /\ Excused(x)') \/ x \in Host \X {Cleanup}
    <3>1. Returns(x)
        BY <1>a, <2>1
    <3> QED
        BY <1>e, <2>1, <2>2, <3>1 DEF Returns, Excused, Astray, EndsByItself, Up
  <2>4. lost' \cup culprit' # {} => failed'
      BY <1>a, <2>1, <2>2
  <2>5. RestoredOrReported'
      BY <2>1, <2>3, <2>4 DEF RestoredOrReported
  <2> QED
      BY <2>1, <2>5 DEF ServiceInv
<1>13. CASE Rerun
    BY <1>13, <1>d DEF Rerun
<1>14. CASE Surroundings
  <2>1. UNCHANGED <<found, stopped, culprit, lost, pc, todo, failed>> /\ pc \in {"run", "restore"}
      BY <1>14, SurroundingsStep
  <2>2. ASSUME NEW x \in found
        PROVE  /\ Up(At(x)) => Up(At(x))' \/ EndsByItself(x) \/ (pc = "run" /\ Astray(x)')
               /\ Astray(x) => Astray(x)'
    <3>1. CASE UNCHANGED <<ident, strays>>
      <4>1. x \in Name /\ ident' = ident /\ strays' = strays
          BY <1>e, <3>1
      <4>2. Up(At(x)) => Up(At(x))' \/ EndsByItself(x)
          BY <1>14, <4>1, StaysUp
      <4> QED
          BY <4>1, <4>2 DEF Astray
    <3>2. ASSUME NEW k \in Host, HostMoves(k)
          PROVE  /\ Up(At(x)) => Up(At(x))' \/ EndsByItself(x) \/ (pc = "run" /\ Astray(x)')
                 /\ Astray(x) => Astray(x)'
      <4>1. PICK d \in Pi : ident' = [ident EXCEPT ![k] = d] /\ strays' = strays \cup {d}
          BY <3>2 DEF HostMoves
      <4>2. state' = state /\ Op("wipeQueue", k) \in todo
          BY <3>2 DEF HostMoves
      <4>3. pc = "run"
          BY <2>1, <4>2 DEF PlanInv, StartPlan, Op
      <4>4. \A h \in Host : ident'[h] = IF h = k THEN d ELSE ident[h]
          BY <1>e, <4>1
      <4>5. CASE x \in Host \X Elements(DeviceUnits) /\ x[1] = k
          BY <4>1, <4>3, <4>4, <4>5 DEF Astray
      <4>6. CASE x \in Host \X Elements(DeviceUnits) /\ x[1] # k
        <5>1. x[1] \in Host /\ ident'[x[1]] = ident[x[1]]
            BY <4>4, <4>6
        <5>2. At(x)' = At(x)
            BY <5>1 DEF At
        <5>3. Up(At(x)) => Up(At(x))'
            BY <4>2, <5>2 DEF Up
        <5>4. Astray(x) => Astray(x)'
            BY <4>1, <5>1 DEF Astray
        <5> QED
            BY <5>3, <5>4
      <4>7. CASE x \notin Host \X Elements(DeviceUnits)
        <5>1. x \in ServerService
            BY <1>e, <4>7 DEF Name
        <5>2. At(x) = x /\ At(x)' = x /\ ~Astray(x)
            BY <4>7, <5>1 DEF At, Astray
        <5> QED
            BY <4>2, <5>2 DEF Up
      <4> QED
          BY <4>5, <4>6, <4>7
    <3> QED
        BY <1>14, <3>1, <3>2, SurroundingsStep
  <2>3. CASE pc = "run"
    <3>1. ASSUME NEW x \in found PROVE Waits(x)'
        BY <1>a, <2>1, <2>2, <2>3 DEF Waits, EndsByItself
    <3> QED
        BY <1>a, <1>b, <2>1, <2>3, <3>1
  <2>4. CASE pc = "restore"
    <3>1. ASSUME NEW x \in found PROVE Returns(x)'
        BY <1>a, <2>1, <2>2, <2>4 DEF Returns, EndsByItself
    <3> QED
        BY <1>a, <1>c, <2>1, <2>4, <3>1
  <2> QED
      BY <2>1, <2>3, <2>4
<1>15. CASE UNCHANGED vars
    BY <1>15 DEF vars, ServiceInv, RestoredOrReported, Excused, Astray, EndsByItself, Up, At
<1> QED
    BY <1>1, <1>2, <1>3, <1>4, <1>5, <1>6, <1>7, <1>8, <1>9, <1>10, <1>11, <1>12, <1>13, <1>14, <1>15
    DEF Next, Coordinator, WipeRows, RefreshAggregates, WipeObjects

-----------------------------------------------------------------------------
(* The results.                                                            *)

LEMMA ResetInvInit == Init => ResetInv
<1> SUFFICES ASSUME Init PROVE ResetInv
    OBVIOUS
<1>1. ScopeInv
    BY DEF Init, ScopeInv, ServerSurface
<1>2. ReportInv /\ HostInv /\ ServiceInv
    BY DEF Init, ReportInv, HostInv, ServiceInv, RestoredOrReported
<1> QED
    BY <1>1, <1>2, TypeInit DEF ResetInv

LEMMA ResetInvNext == ResetInv /\ [Next]_vars => ResetInv'
BY TypeNext, ScopeNext, ReportNext, HostNext, ServiceNext DEF ResetInv

LEMMA ResetInvariant == Spec => []ResetInv
BY ResetInvInit, ResetInvNext, PTL DEF Spec

(* The coordinator's bookkeeping is sound: what it stops it found running, *)
(* what failed to start it had stopped (_execute, stopped and restored).   *)
THEOREM ResetTypeCorrect == Spec => []ResetTypeOK
<1>1. ResetInv => ResetTypeOK
    BY DEF ResetInv, TypeInv
<1> QED
    BY <1>1, ResetInvariant, PTL

(* When the reports were accepted (_assert_empty), a device that was       *)
(* cleared and is quiet holds no history, on itself or on the server,      *)
(* whatever was published, uploaded or detected between the two passes,    *)
(* and whichever host came to answer for another device.                   *)
THEOREM VerifiedIsEmpty == Spec => []VerifiedMeansEmpty
<1>1. ResetInv => VerifiedMeansEmpty
  <2> SUFFICES ASSUME ResetInv, pc = "verified" PROVE VerifiedMeansEmpty
      BY DEF VerifiedMeansEmpty
  <2>1. todo = {}
      BY DEF ResetInv, TypeInv, PlanInv
  <2>2. ~dirty
      BY DEF ResetInv, TypeInv, PlanInv
  <2> QED
      BY <2>1, <2>2 DEF ResetInv, ReportInv, VerifiedMeansEmpty
<1> QED
    BY <1>1, ResetInvariant, PTL

(* However the attempt ended, each service that ran before runs again, or  *)
(* the exit code is an error and its own command failed or its host came   *)
(* to answer for another device (the finally block of _execute).           *)
THEOREM ServicesRestored == Spec => []RestoredOrReported
<1>1. ResetInv => RestoredOrReported
    BY DEF ResetInv, ServiceInv
<1> QED
    BY <1>1, ResetInvariant, PTL

(* No step takes anything of a device outside the scope from the server.   *)
THEOREM OthersStay == Spec => OthersKept
<1> DEFINE Taken(d, s) == d \in server[s] /\ d \notin server'[s]
           Allowed(d, s) == \/ d \in Scope
                            \/ s = "candidates" /\ Pair \cap Scope # {}
                            \/ s = "aggregates" /\ d \notin server["rows"]
<1>1. ASSUME ResetInv, [Next]_vars, NEW d \in Pi, NEW s \in ServerSurface
      PROVE  Taken(d, s) => Allowed(d, s)
  <2>1. CASE WipeRows
      BY <2>1 DEF WipeRows, WipeServer, InScope, ServerSurface
  <2>2. CASE RefreshAggregates
      BY <2>2 DEF RefreshAggregates, WipeServer, Nothing, ServerSurface
  <2>3. CASE WipeObjects
      BY <1>1, <2>3 DEF WipeObjects, WipeServer, Nothing, ServerSurface, ResetInv, ScopeInv
  <2>4. ASSUME Surroundings PROVE ~Taken(d, s)
    <3>1. server \in [ServerSurface -> SUBSET Pi] /\ server["candidates"] \subseteq Pair
        BY <1>1 DEF ResetInv, TypeInv, ResetTypeOK, ScopeInv
    <3>2. ASSUME NEW e \in Pi, Record(e) \/ Publish(e) \/ PutObject(e) \/ Ingest(e) \/ CleanupEnds(e)
          PROVE  ~Taken(d, s)
        BY <3>1, <3>2 DEF Record, Publish, PutObject, Ingest, CleanupEnds, Becomes
    <3>3. CASE Detect
        BY <3>1, <3>3 DEF Detect
    <3> QED
        BY <2>4, <3>2, <3>3 DEF Surroundings, HostMoves, Revive, Becomes
  <2>5. UNCHANGED server => ~Taken(d, s)
      OBVIOUS
  <2> QED
      BY <1>1, <2>1, <2>2, <2>3, <2>4, <2>5 DEF Next, Coordinator, Main, DryRun, PreparationFails,
          Inspect, Stop, StopReplyLost, Start, WipeQueue, WipeSpool, WipePi, ReportPi, CommandFails,
          ListKeys, ReportServer, AssertEmpty, Restore, Finish, Rerun, world, vars
<1>2. ResetInv /\ [Next]_vars =>
        [\A d \in Pi, s \in ServerSurface :
           d \in server[s] /\ d \notin server'[s] =>
             d \in Scope \/ (s = "candidates" /\ Pair \cap Scope # {})
             \/ (s = "aggregates" /\ d \notin server["rows"])]_vars
    BY <1>1
<1> QED
    BY <1>2, ResetInvariant, PTL DEF Spec, OthersKept
=============================================================================
