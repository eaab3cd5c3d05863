------------------------- MODULE ConnectionSettings -------------------------
(***************************************************************************)
(* Where the Woosh viewer connects to: main.rs from the command line and   *)
(* woosh-viewer.toml over the connection form to the three places that use *)
(* the result - the control client, the data service and the live URL -    *)
(* and back to the file.                                                   *)
(*                                                                         *)
(* A robot address is a text that the form, the file or a flag holds: the  *)
(* address of a robot, perhaps with blanks around it, or nothing, or       *)
(* something that is no host.  The robot's port goes with its address.     *)
(* The process may end at any time, also in the middle of a write, which   *)
(* empties the file and then fills it.                                     *)
(***************************************************************************)
EXTENDS Naturals, FiniteSets

CONSTANTS Robots,        \* robot addresses
          Ports,         \* Rerun ports that pass the check
          DefaultPort,   \* ViewerConfig::default
          None,          \* a value that is not given
          Other,         \* a URL that is not the viewer's own
          Malformed      \* a file that is not of this format

VARIABLES
    file,        \* woosh-viewer.toml: None if there is none, or its fields
    author,      \* who wrote it last: "hand", "viewer", or "torn" for a
                 \* write of the viewer that was cut short
    up,          \* the viewer runs
    form,        \* connection_robot_ip and connection_rerun_port
    save,        \* connection_save
    endpoint,    \* the text ControlClient sends to
    service,     \* the settings of the running data service, None if none
    url,         \* rerun_url: the port it names, or Other
    configured   \* connection_configured

onDisk == <<file, author>>
panel  == <<form, save, endpoint, service, url, configured>>
vars   == <<onDisk, up, panel>>

Names == Robots \cup {"blank", "no host"}
Texts == [name : Names, padded : BOOLEAN]
Text(n) == [name |-> n, padded |-> FALSE]
Settings == [robot : Robots, port : Ports]

(* FileConfig: every field is optional, and an empty file has none. *)
Fields == [ip : Texts \cup {None}, port : Ports \cup {0, None}, url : {Other, None}]
EmptyFile == [ip |-> None, port |-> None, url |-> None]
Files == Fields \cup {None, Malformed}

(* The three special values are no ports, no robots and no files. *)
ASSUME SettingsAssumption ==
    /\ Ports \subseteq Nat \ {0} /\ DefaultPort \in Ports
    /\ Cardinality({None, Other, Malformed}) = 3
    /\ {None, Other, Malformed} \cap (Robots \cup Nat \cup Fields) = {}

TypeOK ==
    /\ file \in Files /\ author \in {"hand", "viewer", "torn"}
    /\ up \in BOOLEAN /\ save \in BOOLEAN /\ configured \in BOOLEAN
    /\ form \in [ip : Texts, port : Ports \cup {0}]
    /\ endpoint \in Texts
    /\ service \in Settings \cup {None}
    /\ url \in Ports \cup {0, Other}

Given(value, otherwise) == IF value = None THEN otherwise ELSE value

----------------------------------------------------------------------------
(* Reading: ViewerConfig::parse, from_file.                                *)

(* Mutated form: the fields of the file are required. *)
Readable_AllFields(required) ==
    IF file = None THEN ~required ELSE file # Malformed /\ file # EmptyFile

(* Only a file named by --config has to be there. *)
Readable(required) == IF file = None THEN ~required ELSE file # Malformed

FromFile ==
    LET f == IF file = None THEN EmptyFile ELSE file IN
    [ip |-> Given(f.ip, Text("blank")), port |-> Given(f.port, DefaultPort), url |-> f.url]

(* The flags override the file. *)
Parse(flags) ==
    [ip |-> Given(flags.ip, FromFile.ip), port |-> Given(flags.port, FromFile.port),
     url |-> Given(flags.url, FromFile.url)]

(* SidecarSettings::from_input; the address is trimmed. *)
Valid(ip, port) == ip.name \in Robots /\ port # 0

FromInput(ip, port) == [robot |-> ip.name, port |-> port]

(* main ends with an error for an address that is neither valid nor empty. *)
Accepted(flags) ==
    /\ Readable(flags.required)
    /\ LET c == Parse(flags) IN c.ip.name = "blank" \/ Valid(c.ip, c.port)

----------------------------------------------------------------------------
(* Start: main, ControlPanel::new.                                         *)

(* The service gets the trimmed address, the client the text as it is. *)
Start(flags) ==
    LET c == Parse(flags) IN
    /\ ~up /\ up' = TRUE
    /\ Accepted(flags)
    /\ configured' = (c.ip.name # "blank")
    /\ service' \in IF configured' THEN {FromInput(c.ip, c.port), None} ELSE {None}
    /\ endpoint' = c.ip
    /\ form' = [ip |-> IF configured' THEN Text(c.ip.name) ELSE c.ip, port |-> c.port]
    /\ url' = Given(c.url, c.port)
    /\ save' = TRUE
    /\ UNCHANGED onDisk

----------------------------------------------------------------------------
(* The connection: SidecarManager::restart, apply_connection, WooshApp::ui *)

(* A running service on the same Rerun port is kept: it gets the new       *)
(* settings and goes on serving on the port it has.                        *)
Reused(s) == service # None /\ service.port = s.port

(* Otherwise it is stopped, and the new one may fail to start. *)
Restart(s) ==
    \/ Reused(s) /\ service' = [s EXCEPT !.port = service.port]
    \/ ~Reused(s) /\ service' \in {s, None}

(* Mutated form: a service that is kept keeps its client too. *)
ApplyConnection_OnNewService(s) ==
    /\ Restart(s)
    /\ IF Reused(s) THEN UNCHANGED endpoint ELSE endpoint' = Text(s.robot)
    /\ url' = s.port /\ configured' = TRUE

(* The live URL, the service and the client get the new settings, also     *)
(* when the service does not start.                                        *)
ApplyConnection(s) ==
    /\ Restart(s)
    /\ endpoint' = Text(s.robot) /\ url' = s.port
    /\ configured' = TRUE

(* Mutated form: what is typed in the form is saved as it is. *)
Saved_AsTyped(s) == [ip |-> form.ip, port |-> form.port, url |-> None]

(* connection_config_contents: the URL is left out. *)
Saved(s) == [ip |-> Text(s.robot), port |-> s.port, url |-> None]

(* What a write leaves that is cut short after its first bytes: a line in  *)
(* the middle is no TOML; lines that are whole, or end within a number,    *)
(* are.  They name a host with another robot port, or with another Rerun   *)
(* port or none.                                                           *)
Torn == {Malformed} \cup [ip : {Text(r) : r \in Robots}, port : Ports \cup {None}, url : {None}]

(* The write stops before its first byte, or later. *)
WriteFails ==
    \/ file' = EmptyFile /\ author' = "viewer"
    \/ file' \in Torn /\ author' = "torn"

(* save_connection_config: it may fail before it touches the file, or      *)
(* after it has emptied it.                                                *)
SaveConnectionConfig(s) ==
    \/ file' = Saved(s) /\ author' = "viewer"
    \/ WriteFails
    \/ UNCHANGED onDisk

(* The button of the form.  An invalid form is refused. *)
Connect ==
    /\ up
    /\ Valid(form.ip, form.port)
    /\ LET s == FromInput(form.ip, form.port) IN
       /\ form' = [form EXCEPT !.ip = Text(s.robot)]
       /\ IF save THEN SaveConnectionConfig(s) ELSE UNCHANGED onDisk
       /\ ApplyConnection(s)
    /\ UNCHANGED <<up, save>>

(* The reload of the live data takes the form as it is and saves nothing. *)
Reload ==
    /\ up
    /\ Valid(form.ip, form.port)
    /\ ApplyConnection(FromInput(form.ip, form.port))
    /\ UNCHANGED <<onDisk, up, form, save>>

(* The port field does not go down to zero. *)
EditForm ==
    /\ up
    /\ \/ form' \in {[form EXCEPT !.ip = t] : t \in Texts}
       \/ form' \in {[form EXCEPT !.port = p] : p \in Ports}
    /\ UNCHANGED <<onDisk, up, save, endpoint, service, url, configured>>

ToggleSave ==
    /\ up /\ save' = ~save
    /\ UNCHANGED <<onDisk, up, form, endpoint, service, url, configured>>

(* poll_exit drops a service that has failed. *)
ServiceFails ==
    /\ service # None /\ service' = None
    /\ UNCHANGED <<onDisk, up, form, save, endpoint, url, configured>>

----------------------------------------------------------------------------
(* The end of the process                                                  *)

NoForm == [ip |-> Text("blank"), port |-> DefaultPort]

(* What a process had is gone; the values are those before any start. *)
End ==
    /\ up /\ up' = FALSE
    /\ form' = NoForm /\ save' = TRUE
    /\ endpoint' = Text("blank") /\ service' = None
    /\ url' = DefaultPort /\ configured' = FALSE

Quit == End /\ UNCHANGED onDisk

(* The process ends after the write has emptied the file. *)
CrashWhileSaving ==
    /\ End
    /\ save /\ Valid(form.ip, form.port)
    /\ WriteFails

(* External: the operator's own editor, while the viewer is not running. *)
EditFile ==
    /\ ~up
    /\ file' \in Files /\ author' = "hand"
    /\ UNCHANGED <<up, panel>>

----------------------------------------------------------------------------

Init ==
    /\ file \in {None, EmptyFile} /\ author = "hand"
    /\ up = FALSE
    /\ form = NoForm /\ save = TRUE
    /\ endpoint = Text("blank") /\ service = None
    /\ url = DefaultPort /\ configured = FALSE

Flags == [ip : Texts \cup {None}, port : Ports \cup {0, None}, url : {Other, None},
          required : BOOLEAN]
NoFlags == [ip |-> None, port |-> None, url |-> None, required |-> FALSE]

Next ==
    \/ \E flags \in Flags : Start(flags)
    \/ Connect \/ Reload \/ EditForm \/ ToggleSave \/ ServiceFails
    \/ Quit \/ CrashWhileSaving \/ EditFile

Spec == Init /\ [][Next]_vars

----------------------------------------------------------------------------
(* Safety                                                                  *)

(* The settings of the data service and the commands are those of one      *)
(* robot, after every start, edit, failed restart, reload and change of    *)
(* port.  (Whether the worker of a service that is kept also follows its   *)
(* settings is NativeSidecar's matter: there it may lose the request.)     *)
(* The text in the client may differ from the address by blanks only, and  *)
(* only as the file or a flag had them: connecting once removes them.      *)
OneRobot == service # None => endpoint.name = service.robot

(* The live URL names the port on which the data service serves, unless    *)
(* --rerun-url or the file named another one and the operator has not      *)
(* connected since.                                                        *)
LiveUrlIsServed == service # None => url \in {service.port, Other}

(* With the types of the state: after any start, edit, refused or accepted *)
(* connection, failed restart or crash, the settings of the data service,  *)
(* the commands and the live URL are those of one connection.              *)
ConnectionInv == TypeOK /\ OneRobot /\ LiveUrlIsServed

(* Whatever happened while the viewer wrote its file - a full disk, the    *)
(* end of the process after it had emptied the file or within a number -   *)
(* the next start without flags is not refused: it connects to a robot, or *)
(* asks like a first start.  The exception is a write that was cut within  *)
(* a line so that what is left is no TOML.                                 *)
NeverLocksItselfOut == author # "hand" /\ file # Malformed => Accepted(NoFlags)

(* What is saved is what is used: the file that a connection leaves has    *)
(* the robot that commands go to and the port of the live URL, or nothing  *)
(* if its write failed; an edited form alone is never written.  A write    *)
(* that is cut short may leave another port.                               *)
SavedIsUsed ==
    [][file' # file /\ author' = "viewer" =>
          \/ file' = EmptyFile
          \/ file' = [ip |-> endpoint', port |-> url', url |-> None]]_vars
=============================================================================
