---------------------- MODULE ConnectionSettingsProofs ----------------------
(***************************************************************************)
(* Theorems about ConnectionSettings, for any robots, ports and files.     *)
(* ConnectionInv is inductive.  NeverLocksItselfOut speaks of a file that  *)
(* the viewer may have written long ago; WrittenOK adds what it wrote: the *)
(* settings of a connection, nothing, or a part of them.  SavedIsUsed      *)
(* holds of every step.                                                    *)
(***************************************************************************)
EXTENDS ConnectionSettings, FiniteSetTheorems, TLAPS

(* What the viewer leaves in its file: nothing, or what a connection used, *)
(* or what is left of that when the write was cut short.                   *)
WrittenOK ==
    /\ author = "viewer" => file = EmptyFile \/ \E s \in Settings : file = Saved(s)
    /\ author = "torn" => file \in Torn

LEMMA Constants ==
  /\ Ports \subseteq Nat \ {0} /\ DefaultPort \in Ports
  /\ None \notin Ports \cup {0} /\ Other \notin Ports \cup {0} /\ None # Other
  /\ Malformed \notin Fields
<1>1. None # Other
  <2>1. ASSUME None = Other PROVE FALSE
    <3>1. {None, Other, Malformed} = {None, Malformed} BY <2>1
    <3>2. Cardinality({None, Malformed}) <= 2
      <4>1. IsFiniteSet({Malformed}) /\ Cardinality({Malformed}) = 1 BY FS_Singleton
      <4>2. {None, Malformed} = {Malformed} \cup {None} OBVIOUS
      <4>q. QED BY <4>1, <4>2, FS_AddElement
    <3>q. QED BY <3>1, <3>2, SettingsAssumption
  <2>q. QED BY <2>1
<1>q. QED BY <1>1, SettingsAssumption

LEMMA EmptyIsFields == EmptyFile \in Fields
BY DEF EmptyFile, Fields

----------------------------------------------------------------------------
(* Start                                                                   *)

(* What the configuration is once the file could be read. *)
LEMMA ParsedIs ==
  ASSUME TypeOK, NEW flags \in Flags, Accepted(flags), NEW c, c = Parse(flags)
  PROVE  /\ c.ip \in Texts /\ c.port \in Ports \cup {0} /\ c.url \in {Other, None}
         /\ c.ip.name = "blank" \/ Valid(c.ip, c.port)
<1>1. file \in Fields \cup {None} BY DEF TypeOK, Files, Accepted, Readable
<1> DEFINE f == IF file = None THEN EmptyFile ELSE file
<1>2. f \in Fields BY <1>1, EmptyIsFields
<1>3. f.ip \in Texts \cup {None} /\ f.port \in Ports \cup {0, None} /\ f.url \in {Other, None}
  BY <1>2 DEF Fields
<1>4. FromFile = [ip |-> Given(f.ip, Text("blank")), port |-> Given(f.port, DefaultPort),
                  url |-> f.url]
  BY DEF FromFile
<1> HIDE DEF f
<1>5. Text("blank") \in Texts BY DEF Text, Texts, Names
<1>6. FromFile.ip \in Texts /\ FromFile.port \in Ports \cup {0} /\ FromFile.url \in {Other, None}
  BY <1>3, <1>4, <1>5, Constants DEF Given
<1>7. flags.ip \in Texts \cup {None} /\ flags.port \in Ports \cup {0, None}
      /\ flags.url \in {Other, None}
  BY DEF Flags
<1>8. c.ip \in Texts /\ c.port \in Ports \cup {0} /\ c.url \in {Other, None}
  BY <1>6, <1>7 DEF Parse, Given
<1>q. QED BY <1>8 DEF Accepted

LEMMA StartKeeps ==
  ASSUME TypeOK, NEW flags \in Flags, Start(flags)
  PROVE  ConnectionInv'
<1> DEFINE c == Parse(flags)
<1>1. /\ c.ip \in Texts /\ c.port \in Ports \cup {0} /\ c.url \in {Other, None}
      /\ c.ip.name = "blank" \/ Valid(c.ip, c.port)
  BY ParsedIs DEF Start
<1>2. /\ configured' = (c.ip.name # "blank") /\ endpoint' = c.ip
      /\ service' \in IF configured' THEN {FromInput(c.ip, c.port), None} ELSE {None}
      /\ form' = [ip |-> IF configured' THEN Text(c.ip.name) ELSE c.ip, port |-> c.port]
      /\ url' = Given(c.url, c.port)
      /\ save' = TRUE /\ up' = TRUE /\ file' = file /\ author' = author
  BY DEF Start, onDisk
<1> HIDE DEF c
<1>3. configured' \in BOOLEAN BY <1>2
<1>4. c.ip.name \in Names BY <1>1 DEF Texts
<1>5. Text(c.ip.name) \in Texts BY <1>4 DEF Text, Texts
<1>6. form' \in [ip : Texts, port : Ports \cup {0}] BY <1>1, <1>2, <1>5
<1>7. url' \in {c.port, Other} BY <1>1, <1>2 DEF Given
<1>8. CASE service' = None
  BY <1>1, <1>2, <1>3, <1>6, <1>7, <1>8 DEF ConnectionInv, OneRobot, LiveUrlIsServed, TypeOK
<1>9. CASE configured' /\ service' = FromInput(c.ip, c.port)
  <2>1. c.ip.name \in Robots /\ c.port \in Ports BY <1>1, <1>2, <1>9 DEF Valid
  <2>2. service' = [robot |-> c.ip.name, port |-> c.port] /\ service' \in Settings
    BY <1>9, <2>1 DEF FromInput, Settings
  <2>q. QED
    BY <1>1, <1>2, <1>3, <1>6, <1>7, <2>1, <2>2
    DEF ConnectionInv, OneRobot, LiveUrlIsServed, TypeOK
<1>q. QED BY <1>2, <1>8, <1>9

----------------------------------------------------------------------------
(* The connection                                                          *)

(* A valid form is the settings of a connection. *)
LEMMA FormIs ==
  ASSUME TypeOK, Valid(form.ip, form.port), NEW s, s = FromInput(form.ip, form.port)
  PROVE  s \in Settings /\ s.robot = form.ip.name /\ Text(s.robot) \in Texts
<1>1. form.ip.name \in Robots /\ form.port \in Ports BY DEF Valid, TypeOK
<1>q. QED BY <1>1 DEF FromInput, Settings, Text, Texts, Names

LEMMA ApplyKeeps ==
  ASSUME TypeOK, NEW s \in Settings, ApplyConnection(s)
  PROVE  /\ service' \in Settings \cup {None}
         /\ endpoint' \in Texts /\ url' \in Ports /\ configured' = TRUE
         /\ OneRobot' /\ LiveUrlIsServed'
<1>1. s.robot \in Robots /\ s.port \in Ports BY DEF Settings
<1>2. endpoint' = Text(s.robot) /\ url' = s.port /\ configured' = TRUE /\ Restart(s)
  BY DEF ApplyConnection
<1>3. endpoint' \in Texts /\ endpoint'.name = s.robot BY <1>1, <1>2 DEF Text, Texts, Names
<1>4. CASE Reused(s) /\ service' = [s EXCEPT !.port = service.port]
  <2>1. service.port = s.port BY <1>4 DEF Reused
  <2>2. service'.robot = s.robot /\ service'.port = s.port /\ service' \in Settings
    BY <1>1, <1>4, <2>1 DEF Settings
  <2>q. QED BY <1>1, <1>2, <1>3, <2>2 DEF OneRobot, LiveUrlIsServed
<1>5. CASE service' \in {s, None}
  BY <1>1, <1>2, <1>3, <1>5 DEF OneRobot, LiveUrlIsServed
<1>q. QED BY <1>2, <1>4, <1>5 DEF Restart

LEMMA SavedIsFields == ASSUME NEW s \in Settings PROVE Saved(s) \in Fields
<1>1. s.robot \in Robots /\ s.port \in Ports BY DEF Settings
<1>2. Text(s.robot) \in Texts BY <1>1 DEF Text, Texts, Names
<1>q. QED BY <1>1, <1>2 DEF Saved, Fields

LEMMA TornIsFile == Torn \subseteq Files
<1>1. \A r \in Robots : Text(r) \in Texts BY DEF Text, Texts, Names
<1>q. QED BY <1>1 DEF Torn, Files, Fields

(* A write that fails leaves a file that may be there. *)
LEMMA FailureKeeps ==
  ASSUME WriteFails
  PROVE  file' \in Files /\ author' \in {"hand", "viewer", "torn"} /\ WrittenOK'
<1>1. CASE file' = EmptyFile /\ author' = "viewer"
  BY <1>1, EmptyIsFields DEF Files, WrittenOK
<1>2. CASE file' \in Torn /\ author' = "torn"
  BY <1>2, TornIsFile DEF WrittenOK, Torn
<1>q. QED BY <1>1, <1>2 DEF WriteFails

(* What Connect writes. *)
LEMMA SaveKeeps ==
  ASSUME TypeOK, WrittenOK, NEW s \in Settings, SaveConnectionConfig(s) \/ UNCHANGED onDisk
  PROVE  file' \in Files /\ author' \in {"hand", "viewer", "torn"} /\ WrittenOK'
<1>1. CASE UNCHANGED onDisk BY <1>1 DEF onDisk, TypeOK, WrittenOK
<1>2. CASE file' = Saved(s) /\ author' = "viewer"
  BY <1>2, SavedIsFields DEF Files, WrittenOK
<1>3. CASE WriteFails BY <1>3, FailureKeeps
<1>q. QED BY <1>1, <1>2, <1>3 DEF SaveConnectionConfig

LEMMA ConnectKeeps ==
  ASSUME ConnectionInv, WrittenOK, Connect
  PROVE  ConnectionInv' /\ WrittenOK'
<1> DEFINE s == FromInput(form.ip, form.port)
<1>1. TypeOK BY DEF ConnectionInv
<1>2. /\ Valid(form.ip, form.port) /\ up' = up /\ save' = save
      /\ form' = [form EXCEPT !.ip = Text(s.robot)] /\ ApplyConnection(s)
      /\ SaveConnectionConfig(s) \/ UNCHANGED onDisk
  BY DEF Connect
<1>3. s \in Settings /\ Text(s.robot) \in Texts BY <1>1, <1>2, FormIs
<1> HIDE DEF s
<1>4. form' \in [ip : Texts, port : Ports \cup {0}] BY <1>1, <1>2, <1>3 DEF TypeOK
<1>5. file' \in Files /\ author' \in {"hand", "viewer", "torn"} /\ WrittenOK'
  BY <1>1, <1>2, <1>3, SaveKeeps
<1>6. /\ service' \in Settings \cup {None}
      /\ endpoint' \in Texts /\ url' \in Ports /\ configured' = TRUE
      /\ OneRobot' /\ LiveUrlIsServed'
  BY <1>1, <1>2, <1>3, ApplyKeeps
<1>q. QED BY <1>1, <1>2, <1>4, <1>5, <1>6 DEF ConnectionInv, TypeOK

LEMMA ReloadKeeps ==
  ASSUME ConnectionInv, WrittenOK, Reload
  PROVE  ConnectionInv' /\ WrittenOK'
<1> DEFINE s == FromInput(form.ip, form.port)
<1>1. TypeOK BY DEF ConnectionInv
<1>2. Valid(form.ip, form.port) /\ UNCHANGED <<file, author, up, form, save>> /\ ApplyConnection(s)
  BY DEF Reload, onDisk
<1>3. s \in Settings BY <1>1, <1>2, FormIs
<1> HIDE DEF s
<1>4. /\ service' \in Settings \cup {None}
      /\ endpoint' \in Texts /\ url' \in Ports /\ configured' = TRUE
      /\ OneRobot' /\ LiveUrlIsServed'
  BY <1>1, <1>2, <1>3, ApplyKeeps
<1>q. QED BY <1>1, <1>2, <1>4 DEF ConnectionInv, TypeOK, WrittenOK

----------------------------------------------------------------------------
(* The other steps                                                         *)

LEMMA EndKeeps ==
  ASSUME ConnectionInv, End, file' \in Files, author' \in {"hand", "viewer", "torn"}
  PROVE  ConnectionInv'
<1>1. Text("blank") \in Texts /\ DefaultPort \in Ports
  BY Constants DEF Text, Texts, Names
<1>2. NoForm \in [ip : Texts, port : Ports \cup {0}] BY <1>1 DEF NoForm
<1>q. QED BY <1>1, <1>2 DEF End, ConnectionInv, TypeOK, OneRobot, LiveUrlIsServed

LEMMA SettingsInit == Init => ConnectionInv /\ WrittenOK
<1> SUFFICES ASSUME Init PROVE ConnectionInv /\ WrittenOK OBVIOUS
<1>1. Text("blank") \in Texts /\ DefaultPort \in Ports
  BY Constants DEF Text, Texts, Names
<1>2. NoForm \in [ip : Texts, port : Ports \cup {0}] BY <1>1 DEF NoForm
<1>3. file \in Files BY EmptyIsFields DEF Init, Files
<1>q. QED
  BY <1>1, <1>2, <1>3 DEF Init, ConnectionInv, TypeOK, OneRobot, LiveUrlIsServed, WrittenOK

LEMMA SettingsStep ==
  ConnectionInv /\ WrittenOK /\ [Next]_vars => ConnectionInv' /\ WrittenOK'
<1> SUFFICES ASSUME ConnectionInv, WrittenOK, [Next]_vars
             PROVE  ConnectionInv' /\ WrittenOK'
  OBVIOUS
<1>0. TypeOK BY DEF ConnectionInv
<1>1. ASSUME NEW flags \in Flags, Start(flags) PROVE ConnectionInv' /\ WrittenOK'
  BY <1>0, <1>1, StartKeeps DEF Start, onDisk, WrittenOK
<1>2. CASE Connect BY <1>2, ConnectKeeps
<1>3. CASE Reload BY <1>3, ReloadKeeps
<1>4. CASE EditForm
  <2>1. \/ \E t \in Texts : form' = [form EXCEPT !.ip = t]
        \/ \E p \in Ports : form' = [form EXCEPT !.port = p]
    BY <1>4 DEF EditForm
  <2>2. form' \in [ip : Texts, port : Ports \cup {0}] BY <1>0, <2>1 DEF TypeOK
  <2>q. QED
    BY <1>4, <2>2 DEF EditForm, onDisk, ConnectionInv, TypeOK, OneRobot, LiveUrlIsServed, WrittenOK
<1>5. CASE ToggleSave
  <2>1. save' \in BOOLEAN BY <1>0, <1>5, Zenon DEF ToggleSave, TypeOK
  <2>q. QED
    BY <1>5, <2>1
    DEF ToggleSave, onDisk, ConnectionInv, TypeOK, OneRobot, LiveUrlIsServed, WrittenOK
<1>6. CASE ServiceFails
  BY <1>6 DEF ServiceFails, onDisk, ConnectionInv, TypeOK, OneRobot, LiveUrlIsServed, WrittenOK
<1>7. CASE Quit
  BY <1>0, <1>7, EndKeeps DEF Quit, onDisk, TypeOK, WrittenOK
<1>8. CASE CrashWhileSaving
  BY <1>8, EndKeeps, FailureKeeps DEF CrashWhileSaving
<1>9. CASE EditFile
  BY <1>9 DEF EditFile, panel, ConnectionInv, TypeOK, OneRobot, LiveUrlIsServed, WrittenOK
<1>10. CASE UNCHANGED vars
  BY <1>10 DEF vars, onDisk, panel, ConnectionInv, TypeOK, OneRobot, LiveUrlIsServed, WrittenOK
<1>q. QED
  BY <1>1, <1>2, <1>3, <1>4, <1>5, <1>6, <1>7, <1>8, <1>9, <1>10 DEF Next

(* What the viewer wrote, it accepts if it can be parsed. *)
LEMMA WrittenIsAccepted ==
  ASSUME TypeOK, WrittenOK, author # "hand", file # Malformed
  PROVE  Accepted(NoFlags)
<1>1. \/ file = EmptyFile
      \/ \E r \in Robots, p \in Ports \cup {None} :
            file = [ip |-> Text(r), port |-> p, url |-> None]
  <2>1. author \in {"viewer", "torn"} BY DEF TypeOK
  <2>2. CASE author = "viewer" BY <2>2 DEF WrittenOK, Saved, Settings
  <2>3. CASE author = "torn" BY <2>3 DEF WrittenOK, Torn
  <2>q. QED BY <2>1, <2>2, <2>3
<1>2. Readable(NoFlags.required) BY <1>1 DEF Readable, NoFlags
<1> DEFINE c == Parse(NoFlags)
<1>3. c.ip = FromFile.ip /\ c.port = FromFile.port BY DEF Parse, NoFlags, Given
<1>4. Text("blank").name = "blank" BY DEF Text
<1>5. CASE file = EmptyFile \/ file = None
  <2>1. c.ip = Text("blank") BY <1>3, <1>5 DEF FromFile, EmptyFile, Given
  <2>q. QED BY <1>2, <1>4, <2>1 DEF Accepted
<1>6. ASSUME NEW r \in Robots, NEW p \in Ports \cup {None}, file # None,
             file = [ip |-> Text(r), port |-> p, url |-> None]
      PROVE  Accepted(NoFlags)
  <2>1. FromFile.ip = Given(Text(r), Text("blank"))
        /\ FromFile.port = Given(p, DefaultPort)
    BY <1>6 DEF FromFile
  <2>2. FromFile.port \in Ports /\ FromFile.ip \in {Text(r), Text("blank")}
    BY <2>1, Constants DEF Given
  <2>3. FromFile.port # 0 /\ Text(r).name = r BY <2>2, Constants DEF Text
  <2>4. c.ip.name = "blank" \/ Valid(c.ip, c.port) BY <1>3, <1>4, <2>2, <2>3 DEF Valid
  <2>q. QED BY <1>2, <2>4 DEF Accepted
<1>q. QED BY <1>1, <1>5, <1>6

----------------------------------------------------------------------------
(* Theorems                                                                *)

LEMMA SettingsHold == Spec => [](ConnectionInv /\ WrittenOK)
<1>q. QED BY SettingsInit, SettingsStep, PTL DEF Spec

(* The settings of the data service, the commands and the live URL are     *)
(* those of one connection, for any robots and ports.  Code: main,         *)
(* ControlPanel::new, apply_connection, SidecarManager::restart.           *)
THEOREM OneConnection == Spec => []ConnectionInv
<1>q. QED BY SettingsHold, PTL

(* Whatever becomes of a write, the viewer starts from what it left, if    *)
(* that is TOML at all.                                                    *)
(* Code: save_connection_config, ViewerConfig::parse.                      *)
THEOREM StartsAgain == Spec => []NeverLocksItselfOut
<1>1. ConnectionInv /\ WrittenOK => NeverLocksItselfOut
  BY WrittenIsAccepted DEF NeverLocksItselfOut, ConnectionInv
<1>q. QED BY <1>1, SettingsHold, PTL

(* The file that a connection leaves says what the connection uses.        *)
(* Code: the connection form, save_connection_config, apply_connection.    *)
THEOREM SavedIsConnected == Spec => SavedIsUsed
<1> DEFINE Honest == file' # file /\ author' = "viewer" =>
                       \/ file' = EmptyFile
                       \/ file' = [ip |-> endpoint', port |-> url', url |-> None]
<1>1. [Next]_vars => [Honest]_vars
  <2> SUFFICES ASSUME Next, file' # file, author' = "viewer", file' # EmptyFile
               PROVE  file' = [ip |-> endpoint', port |-> url', url |-> None]
    OBVIOUS
  <2>1. Connect
    BY DEF Next, Start, Reload, EditForm, ToggleSave, ServiceFails, Quit, CrashWhileSaving,
           WriteFails, EditFile, onDisk
  <2> DEFINE s == FromInput(form.ip, form.port)
  <2>2. file' = Saved(s) /\ ApplyConnection(s)
    BY <2>1 DEF Connect, SaveConnectionConfig, WriteFails, onDisk
  <2>q. QED BY <2>2 DEF Saved, ApplyConnection
<1>q. QED BY <1>1, PTL DEF Spec, SavedIsUsed
=============================================================================
