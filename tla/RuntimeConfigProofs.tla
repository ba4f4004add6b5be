------------------------- MODULE RuntimeConfigProofs -------------------------
(* Theorems about RuntimeConfig, for any fields, values, requests, failures. *)
EXTENDS RuntimeConfig, SequenceTheorems, TLAPS

USE ConfigAssumption, ProcessAssumption DEF ConfigAssumption, ProcessAssumption

-----------------------------------------------------------------------------
(* Configurations. *)

LEMMA EmptyIsConfig == Empty \in Config
<1>1. Empty \in [{} -> Value] BY DEF Empty
<1>2. {} \in SUBSET Key OBVIOUS
<1> QED BY <1>1, <1>2 DEF Config

LEMMA MergeIsConfig ==
    ASSUME NEW old \in Config, NEW new \in Config
    PROVE  Merge(old, new) \in Config
<1>1. PICK D \in SUBSET Key : old \in [D -> Value] BY DEF Config
<1>2. PICK E \in SUBSET Key : new \in [E -> Value] BY DEF Config
<1>3. Merge(old, new) \in [D \cup E -> Value] BY <1>1, <1>2 DEF Merge
<1>4. D \cup E \in SUBSET Key OBVIOUS
<1> QED BY <1>3, <1>4 DEF Config

-----------------------------------------------------------------------------
(* Type correctness. *)

LEMMA IdleIsRequest == Idle \in Request
BY EmptyIsConfig DEF Idle, Request

LEMMA GoToKeepsType ==
    ASSUME NEW a \in Admin, put \in [Admin -> Request],
           NEW pc \in {"idle", "flush", "publish", "wait", "acked"}, GoTo(a, pc)
    PROVE  put' \in [Admin -> Request]
BY DEF GoTo, Request

LEMMA FinishKeepsType ==
    ASSUME NEW a \in Admin, ConfigTypeOK, Finish(a)
    PROVE  put' \in [Admin -> Request] /\ lock' \in Admin \cup {"nobody"}
BY IdleIsRequest DEF Finish, ConfigTypeOK

LEMMA DisownKeepsType ==
    ASSUME NEW a, NEW queue \in Seq(Publication)
    PROVE  /\ Disown(queue, a) \in Seq(Publication)
           /\ DOMAIN Disown(queue, a) = DOMAIN queue
<1>1. \A i \in DOMAIN queue : queue[i] \in Publication OBVIOUS
<1>2. \A i \in DOMAIN queue :
         [config |-> queue[i].config,
          by |-> IF queue[i].by = a THEN "nobody" ELSE queue[i].by] \in Publication
  BY <1>1 DEF Publication
<1>3. Disown(queue, a) \in [DOMAIN queue -> Publication] BY <1>2 DEF Disown
<1>4. DOMAIN queue = 1..Len(queue) /\ Len(queue) \in Nat OBVIOUS
<1> QED BY <1>3, <1>4

LEMMA ProcessKeepsType ==
    ASSUME ProcessTypeOK, ProcessNext
    PROVE  ProcessTypeOK'
<1> USE DEF ProcessTypeOK
<1>1. CASE Block BY <1>1 DEF Block
<1>2. CASE Silence BY <1>2 DEF Silence, Trouble
<1>3. CASE Respawn BY <1>3 DEF Respawn, Trouble
<1>4. CASE GoStale BY <1>4 DEF GoStale
<1>5. CASE ClockStep BY <1>5 DEF ClockStep, Trouble
<1>6. CASE Watchdog BY <1>6 DEF Watchdog
<1>7. CASE ExitCleanly BY <1>7 DEF ExitCleanly
<1>8. CASE Die BY <1>8 DEF Die, Trouble
<1>9. CASE SystemdRestart
  <2>1. CASE starts < StartLimitBurst
    <3>1. starts + 1 \in 1..StartLimitBurst BY <2>1
    <3>2. starts' = starts + 1 BY <1>9, <2>1 DEF SystemdRestart
    <3>3. unit' = "up" /\ capture' = "flowing" /\ stale' = FALSE /\ troubles' = troubles
      BY <1>9, <2>1 DEF SystemdRestart
    <3> QED BY <3>1, <3>2, <3>3
  <2>2. CASE ~(starts < StartLimitBurst) BY <1>9, <2>2 DEF SystemdRestart
  <2> QED BY <2>1, <2>2
<1> QED BY <1>1, <1>2, <1>3, <1>4, <1>5, <1>6, <1>7, <1>8, <1>9 DEF ProcessNext

LEMMA AppendKeepsType ==
    ASSUME outbox \in Seq(Publication), NEW config \in Config,
           NEW by \in Admin \cup {"nobody"}
    PROVE  Append(outbox, [config |-> config, by |-> by]) \in Seq(Publication)
<1>1. [config |-> config, by |-> by] \in Publication BY DEF Publication
<1> QED BY <1>1

LEMMA HeadOfOutbox ==
    ASSUME outbox \in Seq(Publication), outbox # <<>>
    PROVE  /\ Head(outbox) \in Publication
           /\ Head(outbox).config \in Config
           /\ Tail(outbox) \in Seq(Publication)
<1>1. Head(outbox) \in Publication /\ Tail(outbox) \in Seq(Publication) OBVIOUS
<1> QED BY <1>1 DEF Publication

LEMMA OutboxEntries ==
    ASSUME outbox \in Seq(Publication)
    PROVE  \A i \in DOMAIN outbox :
               outbox[i] \in Publication /\ outbox[i].by \in Admin \cup {"nobody"}
<1>1. \A i \in DOMAIN outbox : outbox[i] \in Publication OBVIOUS
<1> QED BY <1>1 DEF Publication

LEMMA NothingIsSequence ==
    ASSUME NEW S
    PROVE  <<>> \in Seq(S) /\ \A e \in S : <<e>> \in Seq(S)
OBVIOUS

LEMMA FaultIsCounted ==
    ASSUME faults \in 0..MaxFaults, NEW kind, Fault(kind)
    PROVE  faults' \in 0..MaxFaults
BY DEF Fault

LEMMA AcceptKeepsType ==
    ASSUME ConfigTypeOK, NEW config \in Config, Accept(config)
    PROVE  retained' \in Config /\ taken' \in SUBSET Config /\ toPi' \in Seq(Config)
BY DEF Accept, ConfigTypeOK

LEMMA RequestFields ==
    ASSUME ConfigTypeOK, NEW a \in Admin
    PROVE  put[a] \in Request /\ put[a].seen \in Config /\ put[a].new \in Config
BY DEF ConfigTypeOK, Request

LEMMA PutKeepsType ==
    ASSUME ConfigTypeOK, NEW a \in Admin, PutNext(a)
    PROVE  ConfigTypeOK'
<1> USE RequestFields
<1>0. UNCHANGED <<piVars, processVars, api, apiLink, retained, taken>>
  BY DEF PutNext, PutRead, Flush, Publish, PublishOffline, PubackTimeout, Commit, DbError,
         brokerVars, piVars, processVars
<1>1. CASE PutRead(a)
  <2>1. PICK body \in Config :
           put' = [put EXCEPT ![a] = [pc |-> "flush", seen |-> db, new |-> Merge(db, body)]]
    BY <1>1 DEF PutRead
  <2>2. [pc |-> "flush", seen |-> db, new |-> Merge(db, body)] \in Request
    BY MergeIsConfig DEF ConfigTypeOK, Request
  <2>3. put' \in [Admin -> Request] BY <2>1, <2>2 DEF ConfigTypeOK
  <2> QED BY <1>0, <1>1, <2>3 DEF PutRead, ConfigTypeOK, ProcessTypeOK, piVars, processVars, brokerVars
<1>2. CASE Flush(a)
  <2>1. put' \in [Admin -> Request] BY <1>2, GoToKeepsType DEF Flush, ConfigTypeOK
  <2> QED BY <1>0, <1>2, <2>1 DEF Flush, ConfigTypeOK, ProcessTypeOK, piVars, processVars, brokerVars
<1>3. CASE Publish(a)
  <2>1. put' \in [Admin -> Request] BY <1>3, GoToKeepsType DEF Publish, ConfigTypeOK
  <2>2. outbox' \in Seq(Publication) BY <1>3, AppendKeepsType DEF Publish, ConfigTypeOK
  <2> QED BY <1>0, <1>3, <2>1, <2>2 DEF Publish, ConfigTypeOK, ProcessTypeOK, piVars, processVars
<1>4. CASE PublishOffline(a)
  <2>1. put' \in [Admin -> Request] /\ lock' \in Admin \cup {"nobody"}
    BY <1>4, FinishKeepsType DEF PublishOffline
  <2>2. outbox' \in Seq(Publication) BY <1>4, AppendKeepsType DEF PublishOffline, ConfigTypeOK
  <2> QED BY <1>0, <1>4, <2>1, <2>2 DEF PublishOffline, ConfigTypeOK, ProcessTypeOK, piVars, processVars
<1>5. CASE PubackTimeout(a)
  <2>1. put' \in [Admin -> Request] /\ lock' \in Admin \cup {"nobody"}
    BY <1>5, FinishKeepsType DEF PubackTimeout
  <2>2. outbox' \in Seq(Publication) BY <1>5, DisownKeepsType DEF PubackTimeout, ConfigTypeOK
  <2>3. faults' \in 0..MaxFaults BY <1>5, FaultIsCounted DEF PubackTimeout, ConfigTypeOK
  <2> QED BY <1>0, <1>5, <2>1, <2>2, <2>3 DEF PubackTimeout, ConfigTypeOK, ProcessTypeOK, piVars, processVars
<1>6. CASE Commit(a)
  <2>1. put' \in [Admin -> Request] /\ lock' \in Admin \cup {"nobody"}
    BY <1>6, FinishKeepsType DEF Commit
  <2>2. db' \in Config BY <1>6 DEF Commit, ConfigTypeOK
  <2> QED BY <1>0, <1>6, <2>1, <2>2 DEF Commit, ConfigTypeOK, ProcessTypeOK, piVars, processVars, brokerVars
<1>7. CASE DbError(a)
  <2>1. put' \in [Admin -> Request] /\ lock' \in Admin \cup {"nobody"}
    BY <1>7, FinishKeepsType DEF DbError
  <2>2. faults' \in 0..MaxFaults BY <1>7, FaultIsCounted DEF DbError, ConfigTypeOK
  <2> QED BY <1>0, <1>7, <2>1, <2>2 DEF DbError, ConfigTypeOK, ProcessTypeOK, piVars, processVars, brokerVars
<1> QED BY <1>1, <1>2, <1>3, <1>4, <1>5, <1>6, <1>7 DEF PutNext

LEMMA InitHasType == ConfigInit => ConfigTypeOK
<1> SUFFICES ASSUME ConfigInit PROVE ConfigTypeOK OBVIOUS
<1>1. outbox \in Seq(Publication) /\ toPi \in Seq(Config)
  BY NothingIsSequence DEF ConfigInit
<1>0. /\ 1 \in 1..StartLimitBurst /\ 0 \in 0..MaxTroubles
      /\ 0 \in 0..MaxPuts /\ 0 \in 0..MaxFaults
  OBVIOUS
<1>2. ProcessTypeOK BY <1>0 DEF ConfigInit, ProcessInit, ProcessTypeOK
<1>3. put \in [Admin -> Request] BY IdleIsRequest DEF ConfigInit
<1> QED BY <1>0, <1>1, <1>2, <1>3, EmptyIsConfig DEF ConfigInit, ConfigTypeOK

LEMMA TypeIsKept ==
    ASSUME ConfigTypeOK, [ConfigNext]_configVars
    PROVE  ConfigTypeOK'
<1> USE DEF ConfigTypeOK, ProcessTypeOK, apiVars, brokerVars, piVars, processVars
<1>1. CASE \E a \in Admin : PutNext(a) BY <1>1, PutKeepsType
<1>2. CASE ApiCrash
  <2>1. faults' \in 0..MaxFaults BY <1>2, FaultIsCounted DEF ApiCrash
  <2>2. put' \in [Admin -> Request] BY <1>2, IdleIsRequest DEF ApiCrash
  <2>3. outbox' \in Seq(Publication) BY <1>2, NothingIsSequence DEF ApiCrash
  <2> QED BY <1>2, <2>1, <2>2, <2>3 DEF ApiCrash
<1>3. CASE Startup
  <2>1. outbox' \in Seq(Publication) BY <1>3, AppendKeepsType DEF Startup
  <2> QED BY <1>3, <2>1 DEF Startup
<1>4. CASE ApiConnect BY <1>4 DEF ApiConnect
<1>5. CASE ApiDisconnect
  <2>1. faults' \in 0..MaxFaults BY <1>5, FaultIsCounted DEF ApiDisconnect
  <2> QED BY <1>5, <2>1 DEF ApiDisconnect
<1>6. CASE Take
  <2>1. Head(outbox).config \in Config /\ Tail(outbox) \in Seq(Publication)
    BY <1>6, HeadOfOutbox DEF Take
  <2>2. retained' \in Config /\ taken' \in SUBSET Config /\ toPi' \in Seq(Config)
    BY <1>6, <2>1, AcceptKeepsType DEF Take
  <2>3. \A a \in Admin : [put[a] EXCEPT !.pc = "acked"] \in Request
    BY RequestFields DEF Request
  <2>4. put' \in [Admin -> Request] BY <1>6, <2>3 DEF Take
  <2> QED BY <1>6, <2>1, <2>2, <2>4 DEF Take
<1>7. CASE TakeUnacknowledged
  <2>1. Head(outbox).config \in Config BY <1>7, HeadOfOutbox DEF TakeUnacknowledged
  <2>2. retained' \in Config /\ taken' \in SUBSET Config /\ toPi' \in Seq(Config)
    BY <1>7, <2>1, AcceptKeepsType DEF TakeUnacknowledged
  <2>3. faults' \in 0..MaxFaults BY <1>7, FaultIsCounted DEF TakeUnacknowledged
  <2> QED BY <1>7, <2>2, <2>3 DEF TakeUnacknowledged
<1>8. CASE BrokerWiped
  <2>1. faults' \in 0..MaxFaults BY <1>8, FaultIsCounted DEF BrokerWiped
  <2>2. retained' \in Config BY <1>8, EmptyIsConfig DEF BrokerWiped
  <2>3. toPi' \in Seq(Config) BY <1>8, NothingIsSequence DEF BrokerWiped
  <2> QED BY <1>8, <2>1, <2>2, <2>3 DEF BrokerWiped
<1>9. CASE PiConnect
  <2>1. toPi' \in Seq(Config) BY <1>9, NothingIsSequence DEF PiConnect
  <2> QED BY <1>9, <2>1 DEF PiConnect
<1>10. CASE PiDisconnect
  <2>1. faults' \in 0..MaxFaults BY <1>10, FaultIsCounted DEF PiDisconnect
  <2>2. toPi' \in Seq(Config) BY <1>10, NothingIsSequence DEF PiDisconnect
  <2> QED BY <1>10, <2>1, <2>2 DEF PiDisconnect
<1>11. CASE Apply
  <2>1. Head(toPi) \in Config /\ Tail(toPi) \in Seq(Config) BY <1>11 DEF Apply
  <2>2. overlay' \in Config BY <1>11, <2>1, MergeIsConfig DEF Apply
  <2> QED BY <1>11, <2>1, <2>2 DEF Apply
<1>12. CASE ApplyFails
  <2>1. Tail(toPi) \in Seq(Config) BY <1>12 DEF ApplyFails
  <2>2. faults' \in 0..MaxFaults BY <1>12, FaultIsCounted DEF ApplyFails
  <2> QED BY <1>12, <2>1, <2>2 DEF ApplyFails
<1>13. CASE ProcessStep
  <2>1. ProcessTypeOK' BY <1>13, ProcessKeepsType DEF ProcessStep
  <2>2. piLink' \in BOOLEAN /\ toPi' \in Seq(Config)
    BY <1>13, NothingIsSequence DEF ProcessStep
  <2> QED BY <1>13, <2>1, <2>2 DEF ProcessStep
<1>14. CASE UNCHANGED configVars BY <1>14 DEF configVars
<1> QED
  BY <1>1, <1>2, <1>3, <1>4, <1>5, <1>6, <1>7, <1>8, <1>9, <1>10, <1>11, <1>12, <1>13, <1>14
  DEF ConfigNext

(* Requests, links, queues and overlays keep their types; in particular    *)
(* systemd starts the unit at most StartLimitBurst times.                  *)
THEOREM ConfigTypeCorrect == ConfigSpec => []ConfigTypeOK
<1>1. ConfigInit => ConfigTypeOK BY InitHasType
<1>2. ConfigTypeOK /\ [ConfigNext]_configVars => ConfigTypeOK' BY TypeIsKept
<1> QED BY <1>1, <1>2, PTL DEF ConfigSpec

-----------------------------------------------------------------------------
(* What is committed was accepted by the broker.  A publication that names *)
(* a request is that request's, and the request waits for it.              *)

OutboxInv ==
    \A i \in DOMAIN outbox : outbox[i].by # "nobody" =>
        /\ put[outbox[i].by].pc = "wait"
        /\ put[outbox[i].by].new = outbox[i].config
        /\ \A j \in DOMAIN outbox : outbox[j].by = outbox[i].by => j = i

AckedWasTaken == \A a \in Admin : put[a].pc = "acked" => put[a].new \in taken

CommitInv == ConfigTypeOK /\ OutboxInv /\ AckedWasTaken /\ CommittedWasTaken

(* A step of request a that leaves or disowns its publications. *)
LEMMA FinishKeepsOutbox ==
    ASSUME CommitInv, NEW a \in Admin, Finish(a),
           outbox' = Disown(outbox, a) \/ (outbox' = outbox /\ put[a].pc # "wait")
    PROVE  OutboxInv'
<1>1. \A i \in DOMAIN outbox : outbox[i] \in Publication BY DEF CommitInv, ConfigTypeOK
<1>2. \A b \in Admin : b # a => put'[b] = put[b] BY DEF Finish, CommitInv, ConfigTypeOK
<1>3. CASE outbox' = Disown(outbox, a)
  <2>1. DOMAIN outbox' = DOMAIN outbox BY <1>3 DEF Disown
  <2>2. \A i \in DOMAIN outbox :
           outbox'[i].by = (IF outbox[i].by = a THEN "nobody" ELSE outbox[i].by)
           /\ outbox'[i].config = outbox[i].config
    BY <1>3 DEF Disown
  <2> QED BY <1>1, <1>2, <2>1, <2>2 DEF OutboxInv, CommitInv, Publication
<1>4. CASE outbox' = outbox /\ put[a].pc # "wait"
  BY <1>1, <1>2, <1>4 DEF OutboxInv, CommitInv, Publication
<1> QED BY <1>3, <1>4

LEMMA PutKeepsCommitInv ==
    ASSUME CommitInv, ConfigTypeOK', NEW a \in Admin, PutNext(a)
    PROVE  CommitInv'
<1> USE DEF CommitInv
<1>1. /\ put \in [Admin -> Request]
      /\ \A i \in DOMAIN outbox : outbox[i] \in Publication /\ outbox[i].by \in Admin \cup {"nobody"}
  BY OutboxEntries DEF ConfigTypeOK
<1>2. CASE PutRead(a) \/ Flush(a)
  <2>1. /\ outbox' = outbox /\ taken' = taken /\ db' = db
        /\ put[a].pc \notin {"wait", "acked"} /\ put'[a].pc \notin {"wait", "acked"}
        /\ \A b \in Admin : b # a => put'[b] = put[b]
    BY <1>1, <1>2 DEF PutRead, Flush, GoTo, Idle, brokerVars, Request
  <2> QED BY <1>1, <2>1 DEF OutboxInv, AckedWasTaken, CommittedWasTaken
<1>3. CASE Publish(a)
  <2>1. /\ put[a].pc = "publish" /\ put'[a].pc = "wait" /\ put'[a].new = put[a].new
        /\ \A b \in Admin : b # a => put'[b] = put[b]
        /\ taken' = taken /\ db' = db
    BY <1>1, <1>3 DEF Publish, GoTo, Request
  <2>2. /\ DOMAIN outbox' = 1..(Len(outbox) + 1) /\ DOMAIN outbox = 1..Len(outbox)
        /\ Len(outbox) \in Nat
        /\ \A i \in 1..Len(outbox) : outbox'[i] = outbox[i]
        /\ outbox'[Len(outbox) + 1] = [config |-> put[a].new, by |-> a]
    BY <1>3 DEF Publish, ConfigTypeOK
  <2>3. \A i \in DOMAIN outbox : outbox[i].by # a BY <1>1, <2>1 DEF OutboxInv
  <2>4. OutboxInv' BY <1>1, <2>1, <2>2, <2>3 DEF OutboxInv
  <2> QED BY <2>1, <2>4 DEF AckedWasTaken, CommittedWasTaken
<1>4. CASE PublishOffline(a)
  <2>1. /\ put[a].pc = "publish" /\ put'[a].pc = "idle" /\ taken' = taken /\ db' = db
        /\ \A b \in Admin : b # a => put'[b] = put[b]
    BY <1>1, <1>4 DEF PublishOffline, Finish, Idle
  <2>2. /\ DOMAIN outbox' = 1..(Len(outbox) + 1) /\ DOMAIN outbox = 1..Len(outbox)
        /\ Len(outbox) \in Nat
        /\ \A i \in 1..Len(outbox) : outbox'[i] = outbox[i]
        /\ outbox'[Len(outbox) + 1].by = "nobody"
    BY <1>4 DEF PublishOffline, ConfigTypeOK
  <2>3. OutboxInv' BY <1>1, <2>1, <2>2 DEF OutboxInv
  <2> QED BY <2>1, <2>3 DEF AckedWasTaken, CommittedWasTaken
<1>5. CASE PubackTimeout(a)
  <2>1. OutboxInv' BY <1>5, FinishKeepsOutbox DEF PubackTimeout
  <2>2. /\ put'[a].pc = "idle" /\ taken' = taken /\ db' = db
        /\ \A b \in Admin : b # a => put'[b] = put[b]
    BY <1>1, <1>5 DEF PubackTimeout, Finish, Idle
  <2> QED BY <2>1, <2>2 DEF AckedWasTaken, CommittedWasTaken
<1>6. CASE Commit(a) \/ DbError(a)
  <2>1. /\ put[a].pc # "wait" /\ Finish(a) /\ outbox' = outbox /\ taken' = taken
        /\ db' = db \/ (put[a].pc = "acked" /\ db' = put[a].new)
    BY <1>6 DEF Commit, DbError, brokerVars
  <2>2. OutboxInv' BY <2>1, FinishKeepsOutbox
  <2>3. put'[a].pc = "idle" /\ \A b \in Admin : b # a => put'[b] = put[b]
    BY <1>1, <2>1 DEF Finish, Idle
  <2> QED BY <2>1, <2>2, <2>3 DEF AckedWasTaken, CommittedWasTaken
<1> QED BY <1>2, <1>3, <1>4, <1>5, <1>6 DEF PutNext

LEMMA TakeKeepsCommitInv ==
    ASSUME CommitInv, ConfigTypeOK', Take
    PROVE  CommitInv'
<1> USE DEF CommitInv
<1>1. /\ put \in [Admin -> Request]
      /\ \A i \in DOMAIN outbox : outbox[i] \in Publication /\ outbox[i].by \in Admin \cup {"nobody"}
  BY OutboxEntries DEF ConfigTypeOK
<1>2. /\ Len(outbox) \in Nat \ {0} /\ DOMAIN outbox = 1..Len(outbox)
      /\ Head(outbox) = outbox[1]
      /\ DOMAIN outbox' = 1..(Len(outbox) - 1)
      /\ \A i \in 1..(Len(outbox) - 1) : outbox'[i] = outbox[i + 1]
  BY DEF Take, ConfigTypeOK
<1>3. /\ db' = db /\ taken' = taken \cup {outbox[1].config}
      /\ \A a \in Admin : put'[a].new = put[a].new
      /\ \A a \in Admin : put'[a].pc = IF outbox[1].by = a THEN "acked" ELSE put[a].pc
  BY <1>1, <1>2 DEF Take, Accept, Request
<1>4. \A i \in 1..(Len(outbox) - 1) : outbox'[i].by # "nobody" => outbox'[i].by # outbox[1].by
  BY <1>2 DEF OutboxInv
<1>5. OutboxInv'
  <2> SUFFICES ASSUME NEW i \in 1..(Len(outbox) - 1), outbox'[i].by # "nobody"
               PROVE  /\ put'[outbox'[i].by].pc = "wait"
                      /\ put'[outbox'[i].by].new = outbox'[i].config
                      /\ \A j \in 1..(Len(outbox) - 1) : outbox'[j].by = outbox'[i].by => j = i
    BY <1>2 DEF OutboxInv
  <2>1. i + 1 \in DOMAIN outbox /\ outbox'[i] = outbox[i + 1] /\ outbox[i + 1].by \in Admin
    BY <1>1, <1>2
  <2>2. put[outbox[i + 1].by].pc = "wait" /\ put[outbox[i + 1].by].new = outbox[i + 1].config
    BY <2>1 DEF OutboxInv
  <2>3. ASSUME NEW j \in 1..(Len(outbox) - 1), outbox'[j].by = outbox'[i].by
        PROVE  j = i
    <3>1. j + 1 \in DOMAIN outbox /\ outbox'[j] = outbox[j + 1] BY <1>2
    <3>2. j + 1 = i + 1 BY <2>1, <2>3, <3>1 DEF OutboxInv
    <3> QED BY <3>2
  <2> QED BY <1>3, <1>4, <2>1, <2>2, <2>3
<1>6. AckedWasTaken' BY <1>1, <1>2, <1>3 DEF AckedWasTaken, OutboxInv
<1> QED BY <1>3, <1>5, <1>6 DEF CommittedWasTaken

LEMMA CommitInvIsKept ==
    ASSUME CommitInv, [ConfigNext]_configVars
    PROVE  CommitInv'
<1>1. ConfigTypeOK' BY TypeIsKept DEF CommitInv
<1> USE DEF CommitInv, OutboxInv, AckedWasTaken, CommittedWasTaken
<1>2. CASE \E a \in Admin : PutNext(a) BY <1>1, <1>2, PutKeepsCommitInv
<1>3. CASE Take BY <1>1, <1>3, TakeKeepsCommitInv
<1>4. CASE ApiCrash BY <1>1, <1>4 DEF ApiCrash, Idle
<1>5. CASE Startup
  <2>1. CASE outbox' = outbox BY <1>1, <1>5, <2>1 DEF Startup
  <2>2. CASE outbox' = Append(outbox, [config |-> db, by |-> "nobody"])
    <3>1. /\ DOMAIN outbox' = 1..(Len(outbox) + 1) /\ DOMAIN outbox = 1..Len(outbox)
          /\ Len(outbox) \in Nat
          /\ \A i \in 1..Len(outbox) : outbox'[i] = outbox[i]
          /\ outbox'[Len(outbox) + 1].by = "nobody"
      BY <2>2 DEF ConfigTypeOK
    <3> QED BY <1>1, <1>5, <3>1 DEF Startup
  <2> QED BY <1>5, <2>1, <2>2 DEF Startup
<1>6. CASE TakeUnacknowledged BY <1>1, <1>6 DEF TakeUnacknowledged, Accept, apiVars
<1>7. CASE ApiConnect BY <1>1, <1>7 DEF ApiConnect, apiVars
<1>8. CASE ApiDisconnect BY <1>1, <1>8 DEF ApiDisconnect, apiVars
<1>9. CASE BrokerWiped BY <1>1, <1>9 DEF BrokerWiped, apiVars
<1>10. CASE PiConnect \/ PiDisconnect \/ Apply \/ ApplyFails \/ ProcessStep
  BY <1>1, <1>10 DEF PiConnect, PiDisconnect, Apply, ApplyFails, ProcessStep, apiVars, brokerVars
<1>11. CASE UNCHANGED configVars BY <1>1, <1>11 DEF configVars, apiVars, brokerVars
<1> QED BY <1>2, <1>3, <1>4, <1>5, <1>6, <1>7, <1>8, <1>9, <1>10, <1>11 DEF ConfigNext

(* The dashboard's configuration was accepted by the broker: put_runtime_  *)
(* config commits only what was acknowledged, under any races and losses.  *)
THEOREM CommittedIsAccepted == ConfigSpec => []CommittedWasTaken
<1>1. ConfigInit => CommitInv
  BY InitHasType DEF ConfigInit, CommitInv, OutboxInv, AckedWasTaken, CommittedWasTaken, Idle
<1>2. CommitInv /\ [ConfigNext]_configVars => CommitInv' BY CommitInvIsKept
<1>3. CommitInv => CommittedWasTaken BY DEF CommitInv
<1> QED BY <1>1, <1>2, <1>3, PTL DEF ConfigSpec

-----------------------------------------------------------------------------
(* A connected Pi has what the broker retains: the last command on its way *)
(* to a connected Pi is the retained one.                                  *)

PiInv == PiHasRetained /\ (piLink /\ toPi # <<>> => toPi[Len(toPi)] = retained)

LEMMA PiInvIsKept ==
    ASSUME ConfigTypeOK, PiInv, [ConfigNext]_configVars
    PROVE  PiInv'
<1> USE DEF PiInv, PiHasRetained
<1>1. CASE Take \/ TakeUnacknowledged
  <2>1. PICK config \in Config : Accept(config)
    BY <1>1, HeadOfOutbox DEF Take, TakeUnacknowledged, ConfigTypeOK
  <2>2. piLink' = piLink BY <1>1 DEF Take, TakeUnacknowledged
  <2>3. CASE piLink
    <3>1. toPi' = Append(toPi, config) /\ retained' = config BY <2>1, <2>3 DEF Accept
    <3>2. toPi' # <<>> /\ toPi'[Len(toPi')] = config BY <3>1 DEF ConfigTypeOK
    <3> QED BY <3>1, <3>2
  <2> QED BY <2>2, <2>3
<1>2. CASE PiConnect
  <2>1. CASE retained = Empty
    <3>1. InEffect(retained)' BY <1>2, <2>1 DEF PiConnect, InEffect, Empty, brokerVars
    <3> QED BY <1>2, <2>1, <3>1 DEF PiConnect
  <2>2. CASE retained # Empty
    <3>1. toPi' = <<retained>> /\ retained' = retained BY <1>2, <2>2 DEF PiConnect, brokerVars
    <3> QED BY <3>1
  <2> QED BY <2>1, <2>2
<1>3. CASE Apply \/ ApplyFails
  <2>1. /\ toPi \in Seq(Config) /\ toPi # <<>> /\ toPi' = Tail(toPi)
        /\ piLink' = piLink /\ retained' = retained
    BY <1>3 DEF Apply, ApplyFails, ConfigTypeOK, brokerVars
  <2>2. CASE Len(toPi) = 1
    <3>1. toPi' = <<>> BY <2>1, <2>2
    <3>2. piLink => Head(toPi) = retained BY <2>1, <2>2
    <3>3. CASE Apply
      <4>1. piLink => overlay' = Merge(overlay, retained) BY <3>2, <3>3 DEF Apply
      <4>2. piLink => InEffect(retained)' BY <2>1, <4>1 DEF InEffect, Merge
      <4> QED BY <2>1, <3>1, <4>2
    <3>4. CASE ApplyFails BY <2>1, <3>1, <3>4 DEF ApplyFails
    <3> QED BY <1>3, <3>3, <3>4
  <2>3. CASE Len(toPi) # 1
    <3>1. Len(toPi) \in Nat /\ Len(toPi) > 1
      <4>1. Len(toPi) \in Nat /\ Len(toPi) # 0 BY <2>1, EmptySeq
      <4>2. \A n \in Nat : n # 0 /\ n # 1 => n > 1 OBVIOUS
      <4> QED BY <2>3, <4>1, <4>2, Zenon
    <3>2. Len(toPi') = Len(toPi) - 1 /\ toPi'[Len(toPi) - 1] = toPi[Len(toPi)]
      BY <2>1, <3>1
    <3>3. toPi' # <<>> BY <3>1, <3>2
    <3> QED BY <2>1, <3>2, <3>3
  <2> QED BY <2>2, <2>3
<1>4. CASE BrokerWiped \/ PiDisconnect BY <1>4 DEF BrokerWiped, PiDisconnect
<1>5. CASE ProcessStep
  BY <1>5 DEF ProcessStep, brokerVars, InEffect
<1>6. CASE \/ \E a \in Admin : PutNext(a)
           \/ ApiCrash \/ Startup \/ ApiConnect \/ ApiDisconnect
           \/ UNCHANGED configVars
  <2>1. UNCHANGED <<piLink, toPi, overlay, missed, retained>>
    BY <1>6 DEF PutNext, PutRead, Flush, Publish, PublishOffline, PubackTimeout, Commit, DbError,
                ApiCrash, Startup, ApiConnect, ApiDisconnect, configVars, brokerVars, piVars
  <2> QED BY <2>1 DEF InEffect
<1> QED BY <1>1, <1>2, <1>3, <1>4, <1>5, <1>6 DEF ConfigNext

(* A connected Pi with no command on its way runs what the broker retains, *)
(* unless its overlay could not be written, however often either lost its  *)
(* connection, crashed or was restarted.                                   *)
THEOREM PiFollowsBroker == ConfigSpec => []PiHasRetained
<1>1. ConfigInit => PiInv BY DEF ConfigInit, PiInv, PiHasRetained, InEffect, Empty
<1>2. ConfigTypeOK /\ PiInv /\ [ConfigNext]_configVars => PiInv' BY PiInvIsKept
<1>3. PiInv => PiHasRetained BY DEF PiInv
<1> QED BY <1>1, <1>2, <1>3, ConfigTypeCorrect, PTL DEF ConfigSpec
=============================================================================
