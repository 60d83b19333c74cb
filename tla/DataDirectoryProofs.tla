------------------------- MODULE DataDirectoryProofs -------------------------
(***************************************************************************)
(* For any versions, settings and configurations, and any number of kills, *)
(* losses of power and failed writes: DataSurvives.                        *)
(*                                                                         *)
(* The files fall into three parts that no operation changes together, and *)
(* each has an invariant of its own: CoreInv (the link is switched before  *)
(* the record is written, and back when that fails, or is known not to be  *)
(* back), PairInv (the key is written after its certificate, and as long   *)
(* as power took neither its presence says that the pair is complete),     *)
(* ConfigInv (what is renamed has been checked, and so had everything that *)
(* a loss of power may bring back), DesktopInv (what is captured is        *)
(* captured before anything of ours is written, and dropped only when      *)
(* everything is written back, unless power took it before).               *)
(***************************************************************************)
EXTENDS DataDirectory, TLAPS

Running == {"link", "record", "ready"}

CoreInv ==
  /\ doing.at \in {"down", "cert", "key", "boot"} => ~Up
  /\ doing.at = "ready" => Up
  /\ Up =>
       /\ Valid(known.current) /\ Valid(link)
       /\ known.previous # Unset => Valid(known.previous)
  /\ doing.at \in {"link", "record"} =>
       /\ Valid(doing.next.current)
       /\ doing.next.previous # Unset => Valid(doing.next.previous)
  /\ doing.at = "record" => link = doing.next.current
  /\ doing.at \in {"link", "ready"} /\ Up => link = known.current \/ astray

PairInv ==
  /\ ~severed /\ pair.key # NoFile => pair.cert = pair.key
  /\ doing.at # "down" => starts # 0
  /\ doing.at \in {"cert", "key"} /\ ~severed => pair.key = NoFile
  /\ doing.at = "key" => pair.cert = starts
  /\ doing.at \in Running \union {"boot"} => pair.cert # NoFile /\ pair.key # NoFile

AcceptedConfigs == {c \in ConfigFiles : {c.file, c.backup} \subseteq GoodConfigs \union {Unset}}

ConfigInv ==
  /\ config \in AcceptedConfigs /\ oldConfigs \subseteq AcceptedConfigs
  /\ saving.at \in {"backup", "commit"} => saving.next \in GoodConfigs

WholeSnapshot == [state |-> "whole", ours |-> {}]

UsersOwn == {NoSnapshot, Torn, WholeSnapshot}

(* While the snapshot is what it should be.                                *)
SnapshotInv ==
  /\ snapshot \in UsersOwn /\ oldSnapshots \subseteq UsersOwn
  /\ snapshot = NoSnapshot => ours = {}
  /\ setting.at = "restore" => ours \subseteq setting.left

DesktopInv ==
  /\ setting.at = "capture" => snapshot = NoSnapshot
  /\ setting.at = "apply" => snapshot # NoSnapshot
  /\ setting.at = "restore" => snapshot.state = "whole"
  /\ bereft \/ SnapshotInv

DataInv == DataTypes /\ CoreInv /\ PairInv /\ ConfigInv /\ DesktopInv

USE DataAssumption DEF DataAssumption

-----------------------------------------------------------------------------
(* Who writes what.                                                        *)

CoreSteps ==
  \/ Boots \/ (\E v \in Versions : UpdateCore(v))
  \/ RollbackCore \/ SwitchesLink \/ Records \/ RecordFails

PairSteps == StartsUp \/ WritesCertificate \/ WritesKey

DesktopSteps ==
  \/ ApplyDesktop \/ WritesSnapshot \/ RestoreDesktop
  \/ \E k \in Settings : Sets(k) \/ Restores(k)

ConfigSteps == (\E c \in Configs : Save(c)) \/ Checks \/ BacksUp \/ Commits \/ SaveFails

LEMMA StepsByPart ==
  DataNext <=> CoreSteps \/ PairSteps \/ DesktopSteps \/ ConfigSteps \/ Killed \/ PowerFails
BY DEF DataNext, CoreSteps, PairSteps, DesktopSteps, ConfigSteps

LEMMA PartsApart ==
  /\ CoreSteps => UNCHANGED <<desktopVars, configVars, pair, severed, starts>>
  /\ PairSteps => UNCHANGED <<desktopVars, configVars, installed, link, record, known,
                             oldLinks, oldRecords, astray, acts>>
  /\ DesktopSteps => UNCHANGED <<coreDirVars, configVars, starts>>
  /\ ConfigSteps => UNCHANGED <<coreDirVars, desktopVars, starts>>
<1>1. CoreSteps => UNCHANGED <<desktopVars, configVars, pair, severed, starts>>
  BY DEF CoreSteps, Boots, UpdateCore, RollbackCore, SwitchesLink, Records, RecordFails,
         OnlyLink, Elsewhere, desktopVars, configVars
<1>2. PairSteps => UNCHANGED <<desktopVars, configVars, installed, link, record, known,
                               oldLinks, oldRecords, astray, acts>>
  BY DEF PairSteps, StartsUp, WritesCertificate, WritesKey, OnlyPair, Elsewhere, desktopVars, configVars
<1>3. DesktopSteps => UNCHANGED <<coreDirVars, configVars, starts>>
  BY DEF DesktopSteps, ApplyDesktop, WritesSnapshot, RestoreDesktop, Sets, Restores, OnlyDesktop
<1>4. ConfigSteps => UNCHANGED <<coreDirVars, desktopVars, starts>>
  BY DEF ConfigSteps, Save, Checks, BacksUp, Commits, SaveFails, OnlyConfig
<1> QED BY <1>1, <1>2, <1>3, <1>4

LEMMA StateType ==
  ASSUME NEW s \in State
  PROVE  /\ s.current \in Link /\ s.previous \in Link
         /\ NoState \in State
BY DEF State, NoState, Link

LEMMA InstallsType ==
  ASSUME DataTypes, NEW v \in Versions, Installs(v)
  PROVE  /\ installed' \in [Versions -> {"absent", "broken", "torn", "whole"}]
         /\ unsynced' \subseteq Versions \union {"cert", "key"}
         /\ installed'[v] \in {"torn", "whole"}
         /\ \A w \in Versions : installed[w] \in {"torn", "whole"} => installed'[w] \in {"torn", "whole"}
<1>1. CASE Valid(v)
  BY <1>1 DEF Installs, Valid, DataTypes
<1>2. CASE ~Valid(v)
  BY <1>2 DEF Installs, Valid, DataTypes
<1> QED BY <1>1, <1>2

LEMMA LoadsRecordType ==
  ASSUME DataTypes
  PROVE  LoadsRecord \in State
BY DEF DataTypes, LoadsRecord, State

LEMMA BegunType ==
  ASSUME DataTypes, Begun
  PROVE  acts' \in 0..MaxActs
BY DEF Begun, DataTypes

-----------------------------------------------------------------------------
(* Types.                                                                  *)

Places == {"down", "cert", "key", "boot", "link", "record", "ready"}

CoreTypes ==
  /\ installed \in [Versions -> {"absent", "broken", "torn", "whole"}]
  /\ link \in Link /\ record \in State /\ known \in State
  /\ doing \in [at : Places, next : State]
  /\ acts \in 0..MaxActs /\ unsynced \subseteq Versions \union {"cert", "key"}
  /\ oldLinks \subseteq Link /\ oldRecords \subseteq State /\ astray \in BOOLEAN

LEMMA CoreStepsType ==
  ASSUME DataTypes, CoreSteps
  PROVE  DataTypes'
<1>1. UNCHANGED <<desktopVars, configVars, pair, severed, starts>>
  BY PartsApart
<1>2. CoreTypes /\ NoState \in State /\ known.current \in Link /\ doing.next \in State
        /\ doing.next.current \in Link
  BY StateType DEF DataTypes, CoreTypes, Places
<1>3. /\ Down \in [at : Places, next : State] /\ Ready \in [at : Places, next : State]
      /\ \A s \in State : At("link", s) \in [at : Places, next : State]
  BY <1>2 DEF Down, Ready, At, Places
<1>4. Begun => acts' \in 0..MaxActs
  BY BegunType
<1>5. CASE Boots
  <2>1. installed' \in [Versions -> {"absent", "broken", "torn", "whole"}]
          /\ unsynced' \subseteq Versions \union {"cert", "key"}
    BY <1>2, <1>5, InstallsType DEF Boots, CoreTypes
  <2>2. doing' \in [at : Places, next : State]
    BY <1>2, <1>3, <1>5, LoadsRecordType DEF Boots, CoreTypes
  <2>3. CoreTypes'
    BY <1>2, <1>5, <2>1, <2>2 DEF Boots, CoreTypes
  <2> QED BY <1>1, <2>3 DEF CoreTypes, DataTypes, Places, desktopVars, configVars
<1>6. ASSUME NEW v \in Versions, UpdateCore(v) PROVE DataTypes'
  <2>1. [current |-> v, previous |-> known.current] \in State
    BY <1>2 DEF State, Link
  <2>2. doing' \in [at : Places, next : State]
    BY <1>2, <1>3, <1>6, <2>1 DEF UpdateCore, CoreTypes
  <2>3. installed' \in [Versions -> {"absent", "broken", "torn", "whole"}]
          /\ unsynced' \subseteq Versions \union {"cert", "key"}
    BY <1>2, <1>6, InstallsType DEF UpdateCore, CoreTypes
  <2>4. CoreTypes'
    BY <1>2, <1>4, <1>6, <2>2, <2>3 DEF UpdateCore, CoreTypes
  <2> QED BY <1>1, <2>4 DEF CoreTypes, DataTypes, Places, desktopVars, configVars
<1>7. CASE RollbackCore
  <2>1. [current |-> known.previous, previous |-> known.current] \in State
    BY <1>2, StateType DEF State, Link, CoreTypes
  <2>2. doing' \in [at : Places, next : State]
    BY <1>3, <1>7, <2>1 DEF RollbackCore
  <2>3. CoreTypes'
    BY <1>2, <1>4, <1>7, <2>2 DEF RollbackCore, CoreTypes
  <2> QED BY <1>1, <2>3 DEF CoreTypes, DataTypes, Places, desktopVars, configVars
<1>8. CASE SwitchesLink
  <2>1. doing' \in [at : Places, next : State]
    BY <1>2, <1>3, <1>8 DEF SwitchesLink, Abandons, CoreTypes, Places
  <2>2. link' \in Link /\ oldLinks' \subseteq Link
    BY <1>2, <1>8 DEF SwitchesLink, CoreTypes
  <2>3. acts' \in 0..MaxActs
    BY <1>2, <1>4, <1>8 DEF SwitchesLink, CoreTypes
  <2>4. UNCHANGED <<installed, unsynced, record, known, oldRecords, astray>>
    BY <1>8 DEF SwitchesLink, OnlyLink
  <2>5. CoreTypes'
    BY <1>2, <2>1, <2>2, <2>3, <2>4 DEF CoreTypes
  <2> QED BY <1>1, <2>5 DEF CoreTypes, DataTypes, Places, desktopVars, configVars
<1>9. CASE Records
  <2>1. CoreTypes'
    BY <1>2, <1>3, <1>9 DEF Records, OnlyLink, CoreTypes
  <2> QED BY <1>1, <2>1 DEF CoreTypes, DataTypes, Places, desktopVars, configVars
<1>10. CASE RecordFails
  <2>1. doing' \in [at : Places, next : State]
    BY <1>3, <1>10 DEF RecordFails, Abandons
  <2>2. /\ link' \in Link /\ oldLinks' \subseteq Link
        /\ record' \in State /\ oldRecords' \subseteq State
    BY <1>2, <1>10 DEF RecordFails, CoreTypes
  <2>3. astray' \in BOOLEAN
    BY <1>10 DEF RecordFails
  <2>4. UNCHANGED <<installed, unsynced, known>> /\ acts' \in 0..MaxActs
    BY <1>4, <1>10 DEF RecordFails, OnlyLink
  <2>5. CoreTypes'
    BY <1>2, <2>1, <2>2, <2>3, <2>4 DEF CoreTypes
  <2> QED BY <1>1, <2>5 DEF CoreTypes, DataTypes, Places, desktopVars, configVars
<1> QED BY <1>5, <1>6, <1>7, <1>8, <1>9, <1>10 DEF CoreSteps

LEMMA PairStepsType ==
  ASSUME DataTypes, PairSteps
  PROVE  DataTypes'
<1>1. UNCHANGED <<desktopVars, configVars, installed, link, record, known, oldLinks,
                  oldRecords, astray, acts>>
  BY PartsApart
<1>2. starts' \in 0..MaxStarts
  BY DEF PairSteps, StartsUp, WritesCertificate, WritesKey, OnlyPair, Elsewhere, DataTypes
<1>3. pair' \in [cert : Generation, key : Generation]
  BY DEF PairSteps, StartsUp, WritesCertificate, WritesKey, DataTypes, Generation, Garbled
<1>4. doing' \in [at : {"down", "cert", "key", "boot", "link", "record", "ready"}, next : State]
  BY StateType DEF PairSteps, StartsUp, WritesCertificate, WritesKey, DataTypes, At
<1>5. unsynced' \subseteq Versions \union {"cert", "key"} /\ severed' \in BOOLEAN
  BY DEF PairSteps, StartsUp, WritesCertificate, WritesKey, DataTypes
<1> QED BY <1>1, <1>2, <1>3, <1>4, <1>5 DEF DataTypes, desktopVars, configVars

DesktopTypes ==
  /\ ours \subseteq Settings /\ snapshot \in Snapshot /\ oldSnapshots \subseteq Snapshot
  /\ setting \in [at : {"idle", "capture", "apply", "restore"}, left : SUBSET Settings]
  /\ acts \in 0..MaxActs

LEMMA SnapshotTypes ==
  ASSUME DataTypes
  PROVE  /\ NoSnapshot \in Snapshot /\ Torn \in Snapshot /\ Captured \in Snapshot
         /\ Rest \in [at : {"idle", "capture", "apply", "restore"}, left : SUBSET Settings]
         /\ [at |-> "restore", left |-> Settings] \in
              [at : {"idle", "capture", "apply", "restore"}, left : SUBSET Settings]
BY DEF NoSnapshot, Torn, Captured, Snapshot, Rest, DataTypes

LEMMA DesktopStepsType ==
  ASSUME DataTypes, DesktopSteps
  PROVE  DataTypes'
<1>1. UNCHANGED <<coreDirVars, configVars, starts>>
  BY PartsApart
<1>2. Begun => acts' \in 0..MaxActs
  BY BegunType
<1>3. DesktopTypes
  BY DEF DataTypes, DesktopTypes
<1>4. ASSUME ApplyDesktop \/ RestoreDesktop PROVE DesktopTypes' /\ bereft' = bereft
  <2>1. UNCHANGED <<ours, snapshot, oldSnapshots, bereft>> /\ acts' \in 0..MaxActs
    BY <1>2, <1>4 DEF ApplyDesktop, RestoreDesktop
  <2>2. setting' \in [at : {"idle", "capture", "apply", "restore"}, left : SUBSET Settings]
    BY <1>4, SnapshotTypes DEF ApplyDesktop, RestoreDesktop
  <2> QED BY <1>3, <2>1, <2>2 DEF DesktopTypes
<1>5. ASSUME WritesSnapshot PROVE DesktopTypes' /\ bereft' = bereft
  <2>1. UNCHANGED <<ours, bereft>> /\ acts' \in 0..MaxActs
    BY <1>2, <1>3, <1>5 DEF WritesSnapshot, DesktopTypes
  <2>2. snapshot' \in Snapshot /\ oldSnapshots' \subseteq Snapshot
    BY <1>3, <1>5, SnapshotTypes DEF WritesSnapshot, DesktopTypes
  <2>3. setting' \in [at : {"idle", "capture", "apply", "restore"}, left : SUBSET Settings]
    BY <1>3, <1>5, SnapshotTypes DEF WritesSnapshot, DesktopTypes
  <2> QED BY <1>3, <2>1, <2>2, <2>3 DEF DesktopTypes
<1>6. ASSUME NEW k \in Settings, Sets(k) PROVE DesktopTypes' /\ bereft' = bereft
  <2>1. ours' \subseteq Settings /\ UNCHANGED <<snapshot, oldSnapshots, bereft>> /\ acts' \in 0..MaxActs
    BY <1>2, <1>3, <1>6 DEF Sets, DesktopTypes
  <2>2. setting' \in [at : {"idle", "capture", "apply", "restore"}, left : SUBSET Settings]
    BY <1>3, <1>6, SnapshotTypes DEF Sets, NextSetting, DesktopTypes
  <2> QED BY <1>3, <2>1, <2>2 DEF DesktopTypes
<1>7. ASSUME NEW k \in Settings, Restores(k) PROVE DesktopTypes' /\ bereft' = bereft
  <2>1. ours' \subseteq Settings /\ bereft' = bereft /\ acts' \in 0..MaxActs
    BY <1>2, <1>3, <1>7 DEF Restores, WrittenBack, DesktopTypes
  <2>2. snapshot' \in Snapshot /\ oldSnapshots' \subseteq Snapshot
    BY <1>3, <1>7, SnapshotTypes DEF Restores, DesktopTypes
  <2>3. setting' \in [at : {"idle", "capture", "apply", "restore"}, left : SUBSET Settings]
    BY <1>3, <1>7, SnapshotTypes DEF Restores, NextSetting, DesktopTypes
  <2> QED BY <2>1, <2>2, <2>3 DEF DesktopTypes
<1>8. DesktopTypes' /\ bereft' = bereft
  BY <1>4, <1>5, <1>6, <1>7 DEF DesktopSteps
<1> QED BY <1>1, <1>8 DEF DesktopTypes, DataTypes, coreDirVars, configVars

LEMMA ConfigStepsType ==
  ASSUME DataTypes, ConfigSteps
  PROVE  DataTypes'
<1>1. UNCHANGED <<coreDirVars, desktopVars, starts>>
  BY PartsApart
<1>2. acts' \in 0..MaxActs
  BY BegunType DEF ConfigSteps, Save, Checks, BacksUp, Commits, SaveFails, DataTypes
<1>3. config' \in ConfigFiles /\ oldConfigs' \subseteq ConfigFiles
  BY DEF ConfigSteps, Save, Checks, BacksUp, Commits, SaveFails, DataTypes, ConfigFiles
<1>4. saving' \in [at : {"idle", "check", "backup", "commit"}, next : Configs \union {Unset}]
  BY DEF ConfigSteps, Save, Checks, BacksUp, Commits, SaveFails, DataTypes, At, Idle
<1> QED BY <1>1, <1>2, <1>3, <1>4 DEF DataTypes, coreDirVars, desktopVars

LEMMA StopsType ==
  ASSUME DataTypes, Killed \/ PowerFails
  PROVE  DataTypes'
<1>1. Stops
  BY DEF Killed, PowerFails
<1>2. /\ ours' \subseteq Settings /\ starts' \in 0..MaxStarts /\ known' \in State
      /\ doing' \in [at : {"down", "cert", "key", "boot", "link", "record", "ready"}, next : State]
      /\ setting' \in [at : {"idle", "capture", "apply", "restore"}, left : SUBSET Settings]
      /\ saving' \in [at : {"idle", "check", "backup", "commit"}, next : Configs \union {Unset}]
      /\ astray' \in BOOLEAN
  BY <1>1 DEF Stops, DataTypes, Down, At, NoState, State, Rest, Idle
<1>3. Begins \subseteq Snapshot
  BY SnapshotTypes DEF Begins, DataTypes
<1>4. CASE Killed
  <2>1. snapshot' \in Snapshot /\ oldSnapshots' \subseteq Snapshot
    BY <1>3, <1>4 DEF Killed, DataTypes
  <2>2. UNCHANGED <<installed, link, record, pair, config, unsynced, oldLinks, oldRecords,
                    oldConfigs, severed, bereft, acts>>
    BY <1>4 DEF Killed
  <2> QED BY <1>2, <2>1, <2>2 DEF DataTypes
<1>5. CASE PowerFails
  <2>1. acts' \in 0..MaxActs
    BY <1>5, BegunType DEF PowerFails
  <2>2. link' \in Link /\ record' \in State /\ config' \in ConfigFiles /\ snapshot' \in Snapshot
    BY <1>3, <1>5 DEF PowerFails, DataTypes
  <2>3. installed' \in [Versions -> {"absent", "broken", "torn", "whole"}]
    BY <1>5 DEF PowerFails, DataTypes
  <2>4. pair' \in [cert : Generation, key : Generation]
    <3>1. /\ MayBe(pair.cert, "cert") \subseteq Generation /\ MayBe(pair.key, "key") \subseteq Generation
      BY DEF MayBe, DataTypes, Generation, NoFile, Garbled
    <3> QED BY <1>5, <3>1 DEF PowerFails
  <2>5. severed' \in BOOLEAN /\ bereft' \in BOOLEAN
    BY <1>5 DEF PowerFails
  <2>6. unsynced' = {} /\ oldLinks' = {} /\ oldRecords' = {} /\ oldSnapshots' = {} /\ oldConfigs' = {}
    BY <1>5 DEF PowerFails
  <2> QED BY <1>2, <2>1, <2>2, <2>3, <2>4, <2>5, <2>6 DEF DataTypes
<1> QED BY <1>4, <1>5

LEMMA DataTypeStep == DataTypes /\ [DataNext]_dataVars => DataTypes'
<1>1. DataTypes /\ UNCHANGED dataVars => DataTypes'
  BY DEF dataVars, coreDirVars, desktopVars, configVars, DataTypes
<1> QED BY <1>1, StepsByPart, CoreStepsType, PairStepsType, DesktopStepsType, ConfigStepsType, StopsType

-----------------------------------------------------------------------------
(* A version that is there stays there while the program runs.             *)
LEMMA CoreStepsKeep ==
  ASSUME DataTypes, CoreInv, CoreSteps
  PROVE  CoreInv'
<1>1. known \in State /\ doing.next \in State /\ record \in State
        /\ doing.at \in Places /\ link \in Link
  BY DEF DataTypes, Places
<1>2. \A s \in State : s.current \in Link /\ s.previous \in Link
  BY StateType
<1>3. NoState.current = Unset /\ NoState.previous = Unset
  BY DEF NoState
<1>4. CASE Boots
  <2>1. UNCHANGED <<link, known>> /\ ~Up /\ ~Up' /\ doing.at = "boot"
    BY <1>4 DEF Boots, CoreInv, Up
  <2>2. CASE Valid(Embedded) /\ doing' = At("link", LoadsRecord) /\ UNCHANGED installed
    <3>1. PICK next : next = LoadsRecord
      OBVIOUS
    <3>2. doing' = [at |-> "link", next |-> next]
      BY <2>2, <3>1 DEF At
    <3>3. /\ Valid(next.current)
          /\ next.previous # Unset => Valid(next.previous)
      <4>1. CASE Valid(record.current)
        <5>1. /\ next.current = record.current
              /\ next.previous = IF Valid(record.previous) THEN record.previous ELSE Unset
          BY <4>1, <3>1, <1>1 DEF LoadsRecord, State
        <5> QED BY <5>1, <4>1
      <4>2. CASE ~Valid(record.current)
        <5>1. next.current = Embedded /\ next.previous = Unset
          BY <4>2, <3>1 DEF LoadsRecord
        <5> QED BY <5>1, <2>2
      <4> QED BY <4>1, <4>2
    <3> QED BY <3>2, <3>3, <2>1, <2>2 DEF CoreInv, Valid
  <2>3. CASE doing' \in {doing, Down}
    BY <2>1, <2>3 DEF CoreInv, Down, At
  <2> QED BY <1>4, <2>2, <2>3 DEF Boots
<1>5. ASSUME NEW v \in Versions, UpdateCore(v) PROVE CoreInv'
  <2>1. /\ UNCHANGED <<link, known, astray>> /\ doing = [at |-> "ready", next |-> NoState]
        /\ \/ /\ Installs(v)
              /\ doing' = [at |-> "link", next |-> [current |-> v, previous |-> known.current]]
           \/ UNCHANGED <<installed, doing>>
    BY <1>5 DEF UpdateCore, Ready, At
  <2>2. CASE UNCHANGED <<installed, doing>>
    BY <2>1, <2>2 DEF CoreInv, Valid, Up
  <2>3. CASE /\ Installs(v)
             /\ doing' = [at |-> "link", next |-> [current |-> v, previous |-> known.current]]
    <3>1. /\ installed'[v] \in {"torn", "whole"}
          /\ \A w \in Versions : installed[w] \in {"torn", "whole"} => installed'[w] \in {"torn", "whole"}
      BY <2>3, InstallsType
    <3>2. Up /\ Valid(known.current) /\ Valid(link) /\ (known.previous # Unset => Valid(known.previous))
            /\ (link = known.current \/ astray)
      BY <2>1 DEF CoreInv
    <3>3. \A w \in Link : Valid(w) => Valid(w)'
      BY <3>1 DEF Valid, Link
    <3>4. v # Unset /\ Valid(v)'
      BY <3>1 DEF Valid
    <3>5. Up' /\ Valid(known.current)' /\ Valid(link)' /\ (known'.previous # Unset => Valid(known.previous)')
      BY <2>1, <3>2, <3>3, <1>1, <1>2 DEF Up
    <3> QED BY <2>1, <2>3, <3>2, <3>4, <3>5 DEF CoreInv, Valid
  <2> QED BY <2>1, <2>2, <2>3
<1>6. CASE RollbackCore
  <2>1. /\ UNCHANGED <<installed, link, known, astray>> /\ doing = [at |-> "ready", next |-> NoState]
        /\ Valid(known.previous)
        /\ doing' = [at |-> "link", next |-> [current |-> known.previous, previous |-> known.current]]
    BY <1>6 DEF RollbackCore, Ready, At
  <2>2. Up /\ Valid(known.current)
    BY <2>1 DEF CoreInv
  <2> QED BY <2>1, <2>2 DEF CoreInv, Valid, Up
<1>7. CASE SwitchesLink
  <2>1. UNCHANGED <<installed, known, astray>> /\ doing.at = "link"
    BY <1>7 DEF SwitchesLink, OnlyLink
  <2>2. CASE /\ link' = doing.next.current
             /\ doing' = [doing EXCEPT !.at = "record"]
    <3>1. doing'.at = "record" /\ doing'.next = doing.next
      BY <2>2 DEF DataTypes
    <3> QED BY <2>1, <2>2, <3>1 DEF CoreInv, Valid, Up
  <2>3. CASE Abandons /\ UNCHANGED link
    <3>1. doing'.at = IF Up THEN "ready" ELSE "down"
      BY <2>3 DEF Abandons, Ready, Down, At
    <3> QED BY <2>1, <2>3, <3>1 DEF CoreInv, Valid, Up
  <2> QED BY <1>7, <2>2, <2>3 DEF SwitchesLink
<1>8. CASE Records
  <2>1. /\ UNCHANGED <<installed, link>> /\ doing.at = "record" /\ known' = doing.next
        /\ doing' = [at |-> "ready", next |-> NoState]
    BY <1>8 DEF Records, OnlyLink, Ready, At
  <2>2. Up'
    BY <2>1, <1>3 DEF CoreInv, Up, Valid
  <2> QED BY <2>1, <2>2 DEF CoreInv, Valid
<1>9. CASE RecordFails
  <2>1. /\ UNCHANGED <<installed, known>> /\ link' \in {known.current, link}
        /\ doing.at = "record" /\ astray' = (Up /\ link' # known.current)
        /\ doing'.at = IF Up THEN "ready" ELSE "down"
    BY <1>9 DEF RecordFails, OnlyLink, Abandons, Down, Ready, At
  <2> QED BY <2>1 DEF CoreInv, Valid, Up
<1> QED BY <1>4, <1>5, <1>6, <1>7, <1>8, <1>9 DEF CoreSteps

LEMMA CoreInvStep == DataTypes /\ CoreInv /\ [DataNext]_dataVars => CoreInv'
<1> SUFFICES ASSUME DataTypes, CoreInv, [DataNext]_dataVars PROVE CoreInv'
  OBVIOUS
<1>1. CASE CoreSteps
  BY <1>1, CoreStepsKeep
<1>2. CASE PairSteps
  <2>1. UNCHANGED <<installed, link, known, astray>>
    BY <1>2, PartsApart
  <2>2. doing'.at \in {"cert", "key", "boot"} /\ doing.at \in {"down", "cert", "key"}
    BY <1>2 DEF PairSteps, StartsUp, WritesCertificate, WritesKey, Down, At
  <2> QED BY <2>1, <2>2 DEF CoreInv, Up
<1>3. CASE DesktopSteps \/ ConfigSteps \/ UNCHANGED dataVars
  <2>1. UNCHANGED coreDirVars
    BY <1>3, PartsApart DEF dataVars
  <2> QED BY <2>1 DEF CoreInv, Valid, Up, coreDirVars
<1>4. CASE Killed \/ PowerFails
  <2>1. doing'.at = "down" /\ known' = NoState
    BY <1>4 DEF Killed, PowerFails, Stops, Down, At
  <2> QED BY <2>1 DEF CoreInv, Up
<1> QED BY <1>1, <1>2, <1>3, <1>4, StepsByPart

-----------------------------------------------------------------------------
LEMMA PairInvStep == DataTypes /\ PairInv /\ [DataNext]_dataVars => PairInv'
<1> SUFFICES ASSUME DataTypes, PairInv, [DataNext]_dataVars PROVE PairInv'
  OBVIOUS
<1> USE DEF Running, NoFile
<1>1. CASE CoreSteps
  <2>1. UNCHANGED <<pair, severed, starts>>
    BY <1>1, PartsApart
  <2>2. doing.at \in Running \union {"boot"} /\ doing'.at \in Running \union {"boot", "down"}
    BY <1>1 DEF CoreSteps, Boots, UpdateCore, RollbackCore, SwitchesLink, Records, RecordFails,
                Abandons, Ready, Down, At, DataTypes
  <2> QED BY <2>1, <2>2 DEF PairInv
<1>2. CASE StartsUp
  <2>1. /\ UNCHANGED <<pair, severed>> /\ starts' = starts + 1 /\ starts \in Nat
        /\ doing'.at = IF NoFile \in {pair.cert, pair.key} THEN "cert" ELSE "boot"
    BY <1>2 DEF StartsUp, At, DataTypes
  <2> QED BY <2>1 DEF PairInv
<1>3. CASE WritesCertificate
  <2>1. /\ doing.at = "cert" /\ doing'.at = "key" /\ pair'.cert = starts /\ pair'.key = pair.key
        /\ UNCHANGED <<starts, severed>>
    BY <1>3 DEF WritesCertificate, OnlyPair, Elsewhere, At, DataTypes
  <2> QED BY <2>1 DEF PairInv
<1>4. CASE WritesKey
  <2>1. /\ doing.at = "key" /\ doing'.at = "boot" /\ pair'.cert = pair.cert /\ pair'.key = starts
        /\ UNCHANGED starts
    BY <1>4 DEF WritesKey, OnlyPair, Elsewhere, At, DataTypes
  <2> QED BY <2>1 DEF PairInv
<1>5. CASE DesktopSteps \/ ConfigSteps \/ UNCHANGED dataVars
  BY <1>5, PartsApart DEF PairInv, dataVars, coreDirVars
<1>6. CASE Killed
  BY <1>6 DEF Killed, Stops, Down, At, PairInv
<1>7. CASE PowerFails
  <2>1. doing'.at = "down" /\ severed' = (severed \/ pair' # pair)
    BY <1>7 DEF PowerFails, Stops, Down, At
  <2> QED BY <2>1 DEF PairInv
<1> QED BY <1>1, <1>2, <1>3, <1>4, <1>5, <1>6, <1>7, StepsByPart DEF PairSteps

LEMMA ConfigInvStep == DataTypes /\ ConfigInv /\ [DataNext]_dataVars => ConfigInv'
<1> SUFFICES ASSUME DataTypes, ConfigInv, [DataNext]_dataVars PROVE ConfigInv'
  OBVIOUS
<1>1. CASE CoreSteps \/ PairSteps \/ DesktopSteps \/ UNCHANGED dataVars
  BY <1>1, PartsApart DEF ConfigInv, configVars, dataVars
<1>2. ASSUME NEW c \in Configs, Save(c) PROVE ConfigInv'
  BY <1>2 DEF Save, ConfigInv, At
<1>3. CASE Checks \/ SaveFails
  BY <1>3 DEF Checks, SaveFails, ConfigInv, Idle, At, DataTypes
<1>4. CASE BacksUp
  <2>1. saving'.at = "commit" /\ saving'.next = saving.next /\ saving.next \in GoodConfigs
    BY <1>4 DEF BacksUp, ConfigInv, DataTypes
  <2>2. config' \in AcceptedConfigs /\ oldConfigs' \subseteq AcceptedConfigs
    BY <1>4 DEF BacksUp, ConfigInv, AcceptedConfigs, ConfigFiles
  <2> QED BY <2>1, <2>2 DEF ConfigInv
<1>5. CASE Commits
  <2>1. saving'.at = "idle" /\ saving.next \in GoodConfigs
    BY <1>5 DEF Commits, Idle, At, ConfigInv
  <2>2. config' \in AcceptedConfigs /\ oldConfigs' \subseteq AcceptedConfigs
    BY <1>5, <2>1 DEF Commits, ConfigInv, AcceptedConfigs, ConfigFiles
  <2> QED BY <2>1, <2>2 DEF ConfigInv
<1>6. CASE Killed \/ PowerFails
  <2>1. saving'.at = "idle"
    BY <1>6 DEF Killed, PowerFails, Stops, Idle, At
  <2>2. config' \in AcceptedConfigs /\ oldConfigs' \subseteq AcceptedConfigs
    BY <1>6 DEF Killed, PowerFails, ConfigInv
  <2> QED BY <2>1, <2>2 DEF ConfigInv
<1> QED BY <1>1, <1>2, <1>3, <1>4, <1>5, <1>6, StepsByPart DEF ConfigSteps

-----------------------------------------------------------------------------
LEMMA DesktopInvStep == DataTypes /\ DesktopInv /\ [DataNext]_dataVars => DesktopInv'
<1> SUFFICES ASSUME DataTypes, DesktopInv, [DataNext]_dataVars PROVE DesktopInv'
  OBVIOUS
<1> USE DEF NoSnapshot, Torn, WholeSnapshot, UsersOwn, Rest
<1>1. CASE CoreSteps \/ PairSteps \/ ConfigSteps \/ UNCHANGED dataVars
  BY <1>1, PartsApart DEF DesktopInv, SnapshotInv, desktopVars, dataVars
<1>2. CASE ApplyDesktop
  BY <1>2 DEF ApplyDesktop, Captures, DesktopInv, SnapshotInv
<1>3. CASE WritesSnapshot
  <2>1. /\ UNCHANGED <<ours, bereft>> /\ snapshot = NoSnapshot
        /\ setting'.at \in {"apply", "idle"}
        /\ setting'.at = "apply" => snapshot' = Captured
        /\ snapshot' \in {snapshot, Torn, Captured}
        /\ oldSnapshots' = oldSnapshots \union {snapshot, Torn}
    BY <1>3 DEF WritesSnapshot, DesktopInv, DataTypes
  <2>2. Captured # NoSnapshot
    BY DEF Captured
  <2>3. ASSUME SnapshotInv PROVE SnapshotInv'
    <3>1. ours = {} /\ Captured = WholeSnapshot
      BY <2>1, <2>3 DEF SnapshotInv, Captured
    <3> QED BY <2>1, <2>3, <3>1 DEF SnapshotInv
  <2> QED BY <2>1, <2>2, <2>3 DEF DesktopInv
<1>4. CASE RestoreDesktop
  BY <1>4 DEF RestoreDesktop, DesktopInv, SnapshotInv, DataTypes
<1>5. ASSUME NEW k \in Settings, Sets(k) PROVE DesktopInv'
  <2>1. /\ UNCHANGED <<snapshot, oldSnapshots, bereft>> /\ snapshot # NoSnapshot
        /\ ours' \subseteq Settings
    BY <1>5 DEF Sets, DesktopInv, DataTypes
  <2>2. /\ setting'.at \in {"idle", "apply", "restore"}
        /\ setting'.at = "restore" => snapshot # Torn /\ setting'.left = Settings
    BY <1>5 DEF Sets, NextSetting, DataTypes
  <2>3. snapshot # Torn => snapshot.state = "whole"
    BY <2>1 DEF Snapshot, DataTypes
  <2>4. bereft \/ SnapshotInv => bereft' \/ SnapshotInv'
    BY <2>1, <2>2 DEF SnapshotInv
  <2> QED BY <2>1, <2>2, <2>3, <2>4 DEF DesktopInv
<1>6. ASSUME NEW k \in Settings, Restores(k) PROVE DesktopInv'
  <2>1. setting.at = "restore" /\ k \in setting.left /\ snapshot.state = "whole" /\ UNCHANGED bereft
    BY <1>6 DEF Restores, DesktopInv
  <2>2. CASE /\ ours' = WrittenBack(k) /\ setting.left = {k}
             /\ setting' = Rest /\ snapshot' = NoSnapshot
             /\ oldSnapshots' = oldSnapshots \union {snapshot}
    BY <2>1, <2>2 DEF DesktopInv, SnapshotInv, WrittenBack
  <2>3. CASE /\ ours' = WrittenBack(k) /\ setting.left # {k}
             /\ setting' = [setting EXCEPT !.left = @ \ {k}]
             /\ UNCHANGED <<snapshot, oldSnapshots>>
    <3>1. setting'.at = "restore" /\ setting'.left = setting.left \ {k}
      BY <2>1, <2>3 DEF DataTypes
    <3> QED BY <2>1, <2>3, <3>1 DEF DesktopInv, SnapshotInv, WrittenBack
  <2>4. CASE setting' = Rest /\ UNCHANGED <<snapshot, oldSnapshots>>
    BY <2>1, <2>4 DEF DesktopInv, SnapshotInv
  <2> QED BY <1>6, <2>2, <2>3, <2>4 DEF Restores, NextSetting
<1>7. CASE Killed
  <2>1. /\ setting'.at = "idle" /\ UNCHANGED <<ours, bereft>> /\ snapshot' \in {snapshot, Torn}
        /\ oldSnapshots' \subseteq oldSnapshots \union {snapshot}
    BY <1>7 DEF Killed, Stops, Begins
  <2> QED BY <2>1 DEF DesktopInv, SnapshotInv
<1>8. CASE PowerFails
  <2>1. /\ setting'.at = "idle" /\ UNCHANGED ours /\ oldSnapshots' = {}
        /\ snapshot' \in oldSnapshots \union {snapshot, Torn}
        /\ bereft' = (bereft \/ (snapshot' # snapshot /\ ours # {}))
    BY <1>8 DEF PowerFails, Stops, Begins
  <2> QED BY <2>1 DEF DesktopInv, SnapshotInv
<1> QED BY <1>1, <1>2, <1>3, <1>4, <1>5, <1>6, <1>7, <1>8, StepsByPart DEF DesktopSteps

-----------------------------------------------------------------------------
LEMMA DataInvariant == DataSpec => []DataInv
<1>1. DataInit => DataInv
  <2> SUFFICES ASSUME DataInit PROVE DataInv
    OBVIOUS
  <2>1. DataTypes
    <3>1. /\ installed \in [Versions -> {"absent", "broken", "torn", "whole"}]
          /\ link \in Link /\ NoState \in State
      BY DEF DataInit, Link, State, NoState
    <3>2. pair \in [cert : Generation, key : Generation] /\ acts \in 0..MaxActs /\ starts \in 0..MaxStarts
      BY DEF DataInit, Generation, NoFile, Garbled
    <3>3. /\ doing \in [at : {"down", "cert", "key", "boot", "link", "record", "ready"}, next : State]
          /\ record \in State /\ known \in State
      BY <3>1 DEF DataInit, Down, At
    <3>4. /\ ours \subseteq Settings /\ snapshot \in Snapshot /\ config \in ConfigFiles
          /\ setting \in [at : {"idle", "capture", "apply", "restore"}, left : SUBSET Settings]
      BY DEF DataInit, Snapshot, ConfigFiles, Rest
    <3>5. saving \in [at : {"idle", "check", "backup", "commit"}, next : Configs \union {Unset}]
      BY DEF DataInit, Idle, At
    <3> QED BY <3>1, <3>2, <3>3, <3>4, <3>5 DEF DataInit, DataTypes
  <2>2. CoreInv /\ PairInv
    BY DEF DataInit, CoreInv, PairInv, Running, NoFile, Up, Down, At
  <2>3. ConfigInv /\ DesktopInv
    BY DEF DataInit, ConfigInv, DesktopInv, SnapshotInv, ConfigFiles, AcceptedConfigs, UsersOwn,
           Rest, Idle, NoSnapshot, At
  <2> QED BY <2>1, <2>2, <2>3 DEF DataInv
<1>2. DataInv /\ [DataNext]_dataVars => DataInv'
  BY DataTypeStep, CoreInvStep, PairInvStep, ConfigInvStep, DesktopInvStep DEF DataInv
<1> QED BY <1>1, <1>2, PTL DEF DataSpec

(* Files, desktop and managers are of their types, and the desktop is only *)
(* ever written over what a snapshot has, and restored from a whole one.   *)
THEOREM DataTypeCorrect == DataSpec => []DataTypeOK
<1>1. DataInv => DataTypeOK
  BY DEF DataInv, DesktopInv, DataTypeOK, WholeSnapshot
<1> QED BY <1>1, DataInvariant, PTL

(* Whatever is killed, cut short or refused between two steps, whatever    *)
(* power takes that was not synced, and however often: once the program is *)
(* up, the core that is executed is there and the one reported, unless it  *)
(* could not be taken back; certificate and key are there and belong       *)
(* together, unless power took one of them; the configuration is one the   *)
(* core accepts; the user's settings can be restored unless the snapshot   *)
(* was cut short, or lost with the power.                                  *)
THEOREM DataAlwaysSurvives == DataSpec => []DataSurvives
<1>1. DataInv => DataSurvives
  <2> SUFFICES ASSUME DataInv PROVE DataSurvives
    OBVIOUS
  <2>1. ExecutableIsThere
    BY DEF ExecutableIsThere, DataInv, CoreInv, Ready, At
  <2>2. CertificateHasItsKey
    <3>1. Up => doing.at \in Running
      BY DEF DataInv, DataTypes, CoreInv, Running
    <3> QED BY <3>1 DEF CertificateHasItsKey, DataInv, PairInv
  <2>3. SettingsKept
    BY DEF DataInv, DesktopInv, SnapshotInv, UsersOwn, SettingsKept, NoSnapshot, Torn, WholeSnapshot
  <2>4. {config.file, config.backup} \subseteq GoodConfigs \union {Unset}
    BY DEF DataInv, ConfigInv, AcceptedConfigs
  <2> QED BY <2>1, <2>2, <2>3, <2>4 DEF DataSurvives
<1> QED BY <1>1, DataInvariant, PTL
=============================================================================
