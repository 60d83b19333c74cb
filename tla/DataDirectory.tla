---------------------------- MODULE DataDirectory ----------------------------
(***************************************************************************)
(* What the program leaves on disk and on the desktop, step by step, and   *)
(* what a kill of the process or a loss of power makes of it: the versions *)
(* of sing-box with the link that is executed and the record of which one  *)
(* it is (internal/core), the certificate of the proxy channels, the       *)
(* configuration of the core (internal/configstore), and the snapshot of   *)
(* the user's own proxy settings (internal/platform/systemproxy).          *)
(*                                                                         *)
(* Each of the managers does one thing at a time, under its mutex, so that *)
(* "doing", "setting" and "saving" are one state each.  A write to a       *)
(* temporary file that is renamed is one step.                             *)
(*                                                                         *)
(* A loss of power undoes what no sync has confirmed.  The record and the  *)
(* configuration are synced before they are renamed, so that they are only *)
(* ever an earlier one; the versions, the certificate, its key and the     *)
(* snapshot are not, and may be gone or torn.  What the desktop was told   *)
(* it keeps.                                                               *)
(***************************************************************************)
EXTENDS Integers, FiniteSets

CONSTANTS
  Versions,    \* versions of sing-box
  Embedded,    \* the one in the program
  Settings,    \* keys of the desktop's proxy settings
  Configs,     \* configurations
  GoodConfigs, \* those the core accepts
  Unset,       \* no version, no configuration, no snapshot
  MaxActs,     \* bound: operations begun
  MaxStarts    \* bound: starts of the program

ASSUME DataAssumption ==
  /\ Embedded \in Versions /\ GoodConfigs \subseteq Configs
  /\ Unset \notin Versions \union Configs
  /\ {"cert", "key"} \intersect Versions = {}
  /\ MaxActs \in Nat /\ MaxStarts \in Nat

VARIABLES
  installed,  \* versions/: what is there of each version
  link,       \* what core/sing-box points to
  record,     \* state.json
  known,      \* m.state: what the manager says
  doing,      \* what the core manager, or the start of the program, is at
  pair,       \* generations of the channels' certificate and key
  ours,       \* the desktop's settings that are ours, the others being the user's own
  snapshot,   \* system-proxy-snapshot.json: whether it is there, and what was ours in it
  setting,    \* what the GNOME controller is at
  config,     \* config.json and its backup
  saving,     \* what the configuration store is at
  acts, starts,
  unsynced,   \* versions, certificate and key whose files no sync has confirmed
  oldLinks, oldRecords, oldSnapshots, oldConfigs,
              \* what a loss of power may bring back of each
  astray,     \* history: the link could not be taken back, and is not the
              \* version that the manager reports
  severed,    \* history: power took the certificate or the key since the last
              \* pair was complete
  bereft      \* history: power took the snapshot while settings were ours

coreDirVars == <<installed, link, record, known, doing, pair, unsynced, oldLinks,
                 oldRecords, astray, severed>>
desktopVars == <<ours, snapshot, setting, oldSnapshots, bereft>>
configVars == <<config, saving, oldConfigs>>
dataVars == <<coreDirVars, desktopVars, configVars, acts, starts>>

State == [current : Versions \union {Unset}, previous : Versions \union {Unset}]

NoState == [current |-> Unset, previous |-> Unset]

(* What validateInstalled asks: there is an executable file, torn or not.  *)
(* A directory without one is "broken".                                    *)
Valid(v) == v # Unset /\ installed[v] \in {"whole", "torn"}

(* No file, or an empty one, and a file that is torn or of another time.   *)
NoFile == 0
Garbled == -1

At(at, next) == [at |-> at, next |-> next]

Down == At("down", NoState)
Ready == At("ready", NoState)

Up == known # NoState

Begun == acts < MaxActs /\ acts' = acts + 1

-----------------------------------------------------------------------------
(* The start of the program: OpenManager of the proxy channels, then Open  *)
(* of the core manager.  What fails on the way ends it, like a kill.       *)

StartsUp ==
  /\ doing = Down
  /\ starts < MaxStarts /\ starts' = starts + 1
  /\ doing' = At(IF NoFile \in {pair.cert, pair.key} THEN "cert" ELSE "boot", NoState)
  /\ UNCHANGED <<installed, link, record, known, pair, unsynced, oldLinks, oldRecords, astray, severed>>
  /\ UNCHANGED <<desktopVars, configVars, acts>>

Elsewhere == UNCHANGED <<desktopVars, configVars, starts>>

OnlyPair ==
  /\ UNCHANGED <<installed, link, record, known, oldLinks, oldRecords, astray, acts>>
  /\ Elsewhere

(* A new certificate, and then its key.                                    *)
WritesCertificate ==
  /\ doing.at = "cert" /\ doing' = At("key", NoState)
  /\ pair' = [pair EXCEPT !.cert = starts] /\ unsynced' = unsynced \union {"cert"}
  /\ UNCHANGED severed /\ OnlyPair

WritesKey ==
  /\ doing.at = "key" /\ doing' = At("boot", NoState)
  /\ pair' = [pair EXCEPT !.key = starts] /\ unsynced' = unsynced \union {"key"}
  /\ severed' = FALSE /\ OnlyPair

(* installArchive leaves a version that is there alone, and refuses a      *)
(* directory without an executable.                                        *)
Installs(v) ==
  IF Valid(v) THEN UNCHANGED <<installed, unsynced>>
  ELSE /\ installed[v] = "absent" /\ installed' = [installed EXCEPT ![v] = "whole"]
       /\ unsynced' = unsynced \union {v}

(* bootstrap: the recorded version if it is there, else the embedded one.  *)
LoadsRecord ==
  IF Valid(record.current)
  THEN [record EXCEPT !.previous = IF Valid(@) THEN @ ELSE Unset]
  ELSE [current |-> Embedded, previous |-> Unset]

Boots ==
  /\ doing.at = "boot"
  /\ \/ Valid(Embedded) /\ doing' = At("link", LoadsRecord) /\ UNCHANGED <<installed, unsynced>>
     \/ ~Valid(Embedded) /\ Installs(Embedded) /\ UNCHANGED doing
     \/ installed[Embedded] = "broken" /\ doing' = Down /\ UNCHANGED <<installed, unsynced>>
  /\ UNCHANGED <<link, record, known, pair, oldLinks, oldRecords, astray, severed, acts>>
  /\ Elsewhere

(* Update downloads and installs a version, which can fail at any time, or *)
(* Rollback takes the one before.                                          *)
UpdateCore(v) ==
  /\ doing = Ready /\ v # known.current
  /\ Begun
  /\ \/ /\ Installs(v)
        /\ doing' = At("link", [current |-> v, previous |-> known.current])
     \/ UNCHANGED <<installed, unsynced, doing>>
  /\ UNCHANGED <<link, record, known, pair, oldLinks, oldRecords, astray, severed>> /\ Elsewhere

RollbackCore ==
  /\ doing = Ready /\ Valid(known.previous)
  /\ Begun
  /\ doing' = At("link", [current |-> known.previous, previous |-> known.current])
  /\ UNCHANGED <<installed, link, record, known, pair, unsynced, oldLinks, oldRecords, astray, severed>>
  /\ Elsewhere

OnlyLink == UNCHANGED <<installed, pair, unsynced, severed>> /\ Elsewhere

(* What fails at the start ends the program.                               *)
Abandons == doing' = IF Up THEN Ready ELSE Down

(* activateLocked: the link is switched, *)
SwitchesLink ==
  /\ doing.at = "link"
  /\ \/ /\ link' = doing.next.current /\ oldLinks' = oldLinks \union {link}
        /\ doing' = [doing EXCEPT !.at = "record"] /\ UNCHANGED acts
     \/ Begun /\ Abandons /\ UNCHANGED <<link, oldLinks>>
  /\ UNCHANGED <<record, known, oldRecords, astray>> /\ OnlyLink

(* and the record written, which syncs both.                               *)
Records ==
  /\ doing.at = "record"
  /\ record' = doing.next /\ known' = doing.next /\ doing' = Ready
  /\ oldLinks' = {} /\ oldRecords' = {} /\ astray' = FALSE
  /\ UNCHANGED <<link, acts>> /\ OnlyLink

(* If not, the link goes back, unless that fails too: nobody looks.  The   *)
(* record is renamed already when only the sync of the directory fails.    *)
RecordFails ==
  /\ doing.at = "record" /\ Begun /\ Abandons
  /\ link' \in {known.current, link} /\ oldLinks' = oldLinks \union {link}
  /\ record' \in {record, doing.next} /\ oldRecords' = oldRecords \union {record}
  /\ astray' = (Up /\ link' # known.current)
  /\ UNCHANGED known /\ OnlyLink

-----------------------------------------------------------------------------
(* The GNOME controller.  "left" are the settings still to be written.     *)

Rest == [at |-> "idle", left |-> {}]

NoSnapshot == [state |-> "none", ours |-> {}]
Torn == [state |-> "torn", ours |-> {}]

OnlyDesktop == UNCHANGED <<coreDirVars, configVars, starts>>

(* Mutant: every Apply captures what it finds.                             *)
AlwaysCaptures == TRUE

(* Only the first Apply since the last Restore captures.                   *)
Captures == snapshot = NoSnapshot

ApplyDesktop ==
  /\ Up /\ setting = Rest /\ Begun
  /\ setting' = [at |-> IF Captures THEN "capture" ELSE "apply", left |-> Settings]
  /\ UNCHANGED <<ours, snapshot, oldSnapshots, bereft>> /\ OnlyDesktop

Captured == [state |-> "whole", ours |-> ours]

(* os.WriteFile and Chmod: a full disk leaves a part of the file.          *)
WritesSnapshot ==
  /\ setting.at = "capture"
  /\ oldSnapshots' = oldSnapshots \union {snapshot, Torn}
  /\ \/ /\ snapshot' = Captured /\ setting' = [setting EXCEPT !.at = "apply"]
        /\ UNCHANGED acts
     \/ Begun /\ snapshot' \in {snapshot, Torn, Captured} /\ setting' = Rest
  /\ UNCHANGED <<ours, bereft>> /\ OnlyDesktop

NextSetting(k) ==
  setting' = IF setting.left = {k} THEN Rest ELSE [setting EXCEPT !.left = @ \ {k}]

(* A setting is written; if one cannot be, those written are taken back.   *)
Sets(k) ==
  /\ setting.at = "apply" /\ k \in setting.left
  /\ \/ ours' = ours \union {k} /\ NextSetting(k) /\ UNCHANGED acts
     \/ /\ Begun /\ ours' \in {ours, ours \union {k}}
        /\ setting' = IF snapshot = Torn THEN Rest ELSE [at |-> "restore", left |-> Settings]
  /\ UNCHANGED <<snapshot, oldSnapshots, bereft>> /\ OnlyDesktop

RestoreDesktop ==
  /\ Up /\ setting = Rest /\ Begun
  /\ setting' = IF snapshot.state = "whole" THEN [at |-> "restore", left |-> Settings] ELSE Rest
  /\ UNCHANGED <<ours, snapshot, oldSnapshots, bereft>> /\ OnlyDesktop

WrittenBack(k) == IF k \in snapshot.ours THEN ours \union {k} ELSE ours \ {k}

(* The snapshot is removed when every setting has been written back; what  *)
(* fails on the way leaves it for the next Restore.                        *)
Restores(k) ==
  /\ setting.at = "restore" /\ k \in setting.left
  /\ \/ /\ ours' = WrittenBack(k) /\ NextSetting(k) /\ UNCHANGED acts
        /\ IF setting.left = {k}
           THEN snapshot' = NoSnapshot /\ oldSnapshots' = oldSnapshots \union {snapshot}
           ELSE UNCHANGED <<snapshot, oldSnapshots>>
     \/ /\ Begun /\ ours' \in {ours, WrittenBack(k)} /\ setting' = Rest
        /\ UNCHANGED <<snapshot, oldSnapshots>>
  /\ UNCHANGED bereft /\ OnlyDesktop

-----------------------------------------------------------------------------
(* Save of the configuration store: the new file is written and checked by *)
(* sing-box, the old one copied to the backup, and the new one renamed.    *)

OnlyConfig == UNCHANGED <<coreDirVars, desktopVars, starts>>

Idle == At("idle", Unset)

Save(c) ==
  /\ Up /\ saving = Idle /\ Begun
  /\ saving' = At("check", c)
  /\ UNCHANGED <<config, oldConfigs>> /\ OnlyConfig

Checks ==
  /\ saving.at = "check"
  /\ saving' = IF saving.next \in GoodConfigs THEN [saving EXCEPT !.at = "backup"] ELSE Idle
  /\ UNCHANGED <<config, oldConfigs, acts>> /\ OnlyConfig

BacksUp ==
  /\ saving.at = "backup"
  /\ config' = [config EXCEPT !.backup = IF config.file = Unset THEN @ ELSE config.file]
  /\ oldConfigs' = oldConfigs \union {config}
  /\ saving' = [saving EXCEPT !.at = "commit"]
  /\ UNCHANGED acts /\ OnlyConfig

(* The sync of the directory confirms both, if it does not fail.           *)
Commits ==
  /\ saving.at = "commit" /\ saving' = Idle
  /\ config' = [config EXCEPT !.file = saving.next]
  /\ \/ oldConfigs' = {} /\ UNCHANGED acts
     \/ Begun /\ oldConfigs' = oldConfigs \union {config}
  /\ OnlyConfig

SaveFails ==
  /\ saving.at # "idle" /\ saving' = Idle /\ Begun
  /\ UNCHANGED <<config, oldConfigs>> /\ OnlyConfig

-----------------------------------------------------------------------------
(* The process ends at once.  The next start does not look at the snapshot.*)
Stops ==
  /\ doing # Down /\ doing' = Down /\ known' = NoState /\ astray' = FALSE
  /\ setting' = Rest /\ saving' = Idle
  /\ UNCHANGED <<ours, starts>>

(* What was begun of the snapshot is left as far as it got.                *)
Begins == IF setting.at = "capture" THEN {snapshot, Torn} ELSE {snapshot}

(* The process is killed: the files stay.                                  *)
Killed ==
  /\ Stops
  /\ snapshot' \in Begins
  /\ oldSnapshots' = IF snapshot' = snapshot THEN oldSnapshots ELSE oldSnapshots \union {snapshot}
  /\ UNCHANGED <<installed, link, record, pair, config, unsynced, oldLinks, oldRecords,
                 oldConfigs, severed, bereft, acts>>

MayBe(now, file) == IF file \in unsynced THEN {now, NoFile, Garbled} ELSE {now}

(* Power is lost: every file is what it was when it was last synced, or    *)
(* anything it has been since, and what was never synced may be no file or *)
(* a torn one.                                                             *)
PowerFails ==
  /\ Stops /\ Begun
  /\ \E new \in [unsynced \intersect Versions -> {"whole", "torn", "broken", "absent"}] :
       installed' = [v \in Versions |-> IF v \in unsynced THEN new[v] ELSE installed[v]]
  /\ pair' \in [cert : MayBe(pair.cert, "cert"), key : MayBe(pair.key, "key")]
  /\ severed' = (severed \/ pair' # pair)
  /\ link' \in oldLinks \union {link} /\ record' \in oldRecords \union {record}
  /\ config' \in oldConfigs \union {config}
  /\ snapshot' \in oldSnapshots \union Begins
  /\ bereft' = (bereft \/ (snapshot' # snapshot /\ ours # {}))
  /\ unsynced' = {} /\ oldLinks' = {} /\ oldRecords' = {}
  /\ oldSnapshots' = {} /\ oldConfigs' = {}

-----------------------------------------------------------------------------
DataInit ==
  /\ installed = [v \in Versions |-> "absent"] /\ link = Unset
  /\ record = NoState /\ known = NoState /\ doing = Down
  /\ pair = [cert |-> NoFile, key |-> NoFile]
  /\ ours = {} /\ snapshot = NoSnapshot /\ setting = Rest
  /\ config = [file |-> Unset, backup |-> Unset] /\ saving = Idle
  /\ acts = 0 /\ starts = 0
  /\ unsynced = {} /\ oldLinks = {} /\ oldRecords = {} /\ oldSnapshots = {}
  /\ oldConfigs = {} /\ astray = FALSE /\ severed = FALSE /\ bereft = FALSE

DataNext ==
  \/ StartsUp \/ WritesCertificate \/ WritesKey \/ Boots
  \/ \E v \in Versions : UpdateCore(v)
  \/ RollbackCore \/ SwitchesLink \/ Records \/ RecordFails
  \/ ApplyDesktop \/ WritesSnapshot \/ RestoreDesktop
  \/ \E k \in Settings : Sets(k) \/ Restores(k)
  \/ \E c \in Configs : Save(c)
  \/ Checks \/ BacksUp \/ Commits \/ SaveFails
  \/ Killed \/ PowerFails

DataSpec == DataInit /\ [][DataNext]_dataVars

-----------------------------------------------------------------------------
Link == Versions \union {Unset}
Generation == Garbled..MaxStarts
Snapshot == {NoSnapshot, Torn} \union [state : {"whole"}, ours : SUBSET Settings]
ConfigFiles == [file : Configs \union {Unset}, backup : Configs \union {Unset}]

DataTypes ==
  /\ installed \in [Versions -> {"absent", "broken", "torn", "whole"}]
  /\ link \in Link /\ record \in State /\ known \in State
  /\ doing \in [at : {"down", "cert", "key", "boot", "link", "record", "ready"}, next : State]
  /\ pair \in [cert : Generation, key : Generation]
  /\ ours \subseteq Settings /\ snapshot \in Snapshot
  /\ setting \in [at : {"idle", "capture", "apply", "restore"}, left : SUBSET Settings]
  /\ config \in ConfigFiles
  /\ saving \in [at : {"idle", "check", "backup", "commit"}, next : Configs \union {Unset}]
  /\ acts \in 0..MaxActs /\ starts \in 0..MaxStarts
  /\ unsynced \subseteq Versions \union {"cert", "key"}
  /\ oldLinks \subseteq Link /\ oldRecords \subseteq State
  /\ oldSnapshots \subseteq Snapshot /\ oldConfigs \subseteq ConfigFiles
  /\ astray \in BOOLEAN /\ severed \in BOOLEAN /\ bereft \in BOOLEAN

(* Types of the files, the desktop and the managers' states; no setting of *)
(* the desktop is written before a snapshot of the user's own was begun,   *)
(* and only a whole one is written back.                                   *)
DataTypeOK ==
  /\ DataTypes
  /\ setting.at = "apply" => snapshot # NoSnapshot
  /\ setting.at = "restore" => snapshot.state = "whole"

(* Once the program is up the link leads to an executable that is there,   *)
(* at rest the one the manager reports, unless it could not be taken back, *)
(* and so is the version to roll back to.                                  *)
ExecutableIsThere ==
  Up =>
    /\ Valid(link) /\ Valid(known.current)
    /\ doing = Ready => link = known.current \/ astray
    /\ known.previous # Unset => Valid(known.previous)

(* The certificate and the key are there, and of one generation, unless    *)
(* power took one of them and left the other, or a part.                   *)
CertificateHasItsKey ==
  Up => /\ NoFile \notin {pair.cert, pair.key}
        /\ pair.cert = pair.key \/ severed

(* Each of the user's settings is on the desktop or in the snapshot, for   *)
(* the next Restore to find, unless the snapshot was cut short, or lost    *)
(* with the power.                                                         *)
SettingsKept ==
  \/ snapshot = Torn \/ bereft
  \/ ours = {}
  \/ snapshot.state = "whole" /\ snapshot.ours = {}

(* Whatever is killed or fails between two of its steps, the program comes *)
(* up with a core it can execute, a certificate with the key that belongs  *)
(* to it, a configuration the core accepts, and the user's settings.  What *)
(* is not synced it may lose, with the power only, and it may report one   *)
(* core and execute another when a failure is followed by a second one.    *)
DataSurvives ==
  /\ ExecutableIsThere
  /\ CertificateHasItsKey
  /\ {config.file, config.backup} \subseteq GoodConfigs \union {Unset}
  /\ SettingsKept
=============================================================================
