----------------------------- MODULE DesktopApp -----------------------------
(***************************************************************************)
(* The window of the Windows client (cmd/client-windows/app.go): which     *)
(* client it has installed, what it shows of it, the settings, the jobs    *)
(* that presses start, and the remote window.  Presses are handled one by  *)
(* one by the frame loop; connecting, saving and the other jobs run on     *)
(* goroutines of their own and meet in a.mu.  Every action is one critical *)
(* section of a.mu or one call of the client.                              *)
(*                                                                         *)
(* What happens inside a client is in ClientLink, StreamLoops and Approval; *)
(* notices, layout and what the settings mean are left out: settings are   *)
(* versions, counted in the order in which the user saves them.            *)
(***************************************************************************)
EXTENDS Naturals, FiniteSets

CONSTANTS
  Clients,    \* bound: clients that connect makes
  Connectors, \* goroutines of connect: auto-connect and presses
  Windows,    \* bound: remote windows that are there at a time
  MaxSaves,   \* bound: saves of the settings
  MaxJobs,    \* bound: jobs that run at a time
  None        \* nil

ASSUME AppAssumption ==
  None \notin Clients /\ None \notin Windows /\ MaxSaves \in Nat /\ MaxJobs \in Nat

VARIABLES
  client,   \* a.client
  status,   \* client -> "none", "live" (Start has succeeded) or "closed"
  opts,     \* client -> the version of the settings it has
  connect,  \* connector -> its place, its client and the version it has read
  taken,    \* the client that the frame loop is closing
  shut,     \* the main window was destroyed: shutdown
  shown,    \* the client whose State a.state is a copy of
  picture,  \* the client whose frame a.lastFrameImage shows
  frames,   \* the clients whose State has LastFrameData that can be decoded
  forwards, \* the clients with a forwardEvents
  settings, \* a.settings
  next,     \* the version that save-settings is saving
  applies,  \* UpdateOptions calls that save-settings has still to make
  busy,     \* requesting, webShareBusy, settingsSaving, updateChecking
  jobs,     \* kind -> the goroutines that run such a job
  remote,   \* a.remote
  windows,  \* remote windows whose goroutine runs
  settled   \* history: see SettingsReachClient

ofClient == <<client, status, connect, taken>>
ofSettings == <<opts, settings, next, applies, settled>>
ofJobs == <<busy, jobs>>
ofRemote == <<remote, windows>>
display == <<shown, picture, frames, forwards>>
vars == <<ofClient, shut, display, ofSettings, ofJobs, ofRemote>>

Kinds == {"request", "web", "save", "update"}
Versions == 0 .. MaxSaves

\* Types; jobs may hold one more than FlagsMeanJobs allows.
TypeOK ==
  /\ client \in Clients \cup {None} /\ taken \in Clients \cup {None}
  /\ shown \in Clients \cup {None} /\ shut \in BOOLEAN
  /\ picture \in Clients \cup {None}
  /\ frames \subseteq Clients /\ forwards \subseteq Clients
  /\ status \in [Clients -> {"none", "live", "closed"}]
  /\ opts \in [Clients -> Versions]
  /\ connect \in [Connectors -> [at : {"idle", "start", "install", "close"},
                                 client : Clients \cup {None}, version : Versions]]
  /\ settings \in Versions /\ next \in Versions
  /\ applies \subseteq [client : Clients, version : Versions]
  /\ busy \subseteq Kinds /\ jobs \in [Kinds -> 0 .. 2]
  /\ remote \in Windows \cup {None} /\ windows \subseteq Windows
  /\ settled \in BOOLEAN

Away == [at |-> "idle", client |-> None, version |-> 0]

Init ==
  /\ client = None /\ taken = None /\ shown = None /\ shut = FALSE
  /\ status = [c \in Clients |-> "none"] /\ opts = [c \in Clients |-> 0]
  /\ connect = [k \in Connectors |-> Away]
  /\ settings = 0 /\ next = 0 /\ applies = {}
  /\ busy = {} /\ jobs = [j \in Kinds |-> 0]
  /\ remote = None /\ windows = {}
  /\ picture = None /\ forwards = {} /\ frames = {}
  /\ settled = TRUE

\* The frame loop is there to handle a press.
Awake == ~shut /\ taken = None

-----------------------------------------------------------------------------
(* connect, disconnect and shutdown                                        *)

\* A press, or auto-connect: the settings are read.
Connect(k) ==
  /\ Awake /\ client = None
  /\ connect[k].at = "idle"
  /\ connect' = [connect EXCEPT ![k] =
       [at |-> "start", client |-> None, version |-> settings]]
  /\ UNCHANGED <<client, status, taken, shut, display, ofSettings, ofJobs, ofRemote>>

\* Start dials and registers; what it leaves behind when it fails is closed.
StartOk(k, c) ==
  /\ connect[k].at = "start" /\ status[c] = "none"
  /\ status' = [status EXCEPT ![c] = "live"]
  /\ opts' = [opts EXCEPT ![c] = connect[k].version]
  /\ connect' = [connect EXCEPT ![k].at = "install", ![k].client = c]
  /\ UNCHANGED <<client, taken, shut, display, settings, next, applies, settled, ofJobs, ofRemote>>

StartFails(k) ==
  /\ connect[k].at = "start"
  /\ connect' = [connect EXCEPT ![k] = Away]
  /\ UNCHANGED <<client, status, taken, shut, display, ofSettings, ofJobs, ofRemote>>

\* Faulty variant: the client of another connector is not looked for.
InstallUnchecked(k) ==
  /\ connect[k].at = "install"
  /\ connect' = [connect EXCEPT ![k] = Away]
  /\ client' = connect[k].client /\ shown' = connect[k].client
  /\ forwards' = forwards \cup {connect[k].client}
  /\ settled' = (applies = {} /\ connect[k].version = settings)
  /\ UNCHANGED <<status, taken, shut, picture, frames, opts, settings, next, applies,
                ofJobs, ofRemote>>

\* The client takes the place, unless another connector was faster; a.state is
\* copied from it, the image that is there stays, and its events are forwarded.
Install(k) ==
  /\ connect[k].at = "install"
  /\ IF client # None
     THEN /\ connect' = [connect EXCEPT ![k].at = "close"]
          /\ UNCHANGED <<client, shown, forwards, settled>>
     ELSE /\ connect' = [connect EXCEPT ![k] = Away]
          /\ client' = connect[k].client /\ shown' = connect[k].client
          /\ forwards' = forwards \cup {connect[k].client}
          /\ settled' = (applies = {} /\ connect[k].version = settings)
  /\ UNCHANGED <<status, taken, shut, picture, frames, opts, settings, next, applies,
                ofJobs, ofRemote>>

LoserCloses(k) ==
  /\ connect[k].at = "close"
  /\ status' = [status EXCEPT ![connect[k].client] = "closed"]
  /\ connect' = [connect EXCEPT ![k] = Away]
  /\ UNCHANGED <<client, taken, shut, display, ofSettings, ofJobs, ofRemote>>

\* a.state and the image are cleared; the client keeps its State, and its
\* forwardEvents goes on.
Disconnect ==
  /\ Awake
  /\ taken' = client /\ client' = None
  /\ shown' = None /\ picture' = None
  /\ UNCHANGED <<status, connect, shut, frames, forwards, ofSettings, ofJobs, ofRemote>>

\* The context ends, then the client is taken.
Shutdown ==
  /\ Awake
  /\ shut' = TRUE
  /\ taken' = client /\ client' = None
  /\ UNCHANGED <<status, connect, display, ofSettings, ofJobs, ofRemote>>

\* c.Close by the frame loop: ClientLink has it end.
CloseTaken ==
  /\ taken # None
  /\ status' = [status EXCEPT ![taken] = "closed"]
  /\ taken' = None
  /\ UNCHANGED <<client, connect, shut, display, ofSettings, ofJobs, ofRemote>>

-----------------------------------------------------------------------------
(* What is shown: every frame of a window takes the State of the installed *)
(* client, and so does forwardEvents after every event of its own client.  *)
(* A client keeps its forwardEvents until the program ends, also when it   *)
(* is closed: an event that was still queued brings back its State and its *)
(* picture, and without a client nothing replaces them.                    *)

\* The client receives a frame, perhaps a damaged one, or its session or its
\* link ends (clearSession).  Closing it clears nothing.
FrameReceived(c) ==
  /\ status[c] = "live"
  /\ frames' \in {frames \cup {c}, frames \ {c}}
  /\ UNCHANGED <<ofClient, shut, shown, picture, forwards, ofSettings, ofJobs, ofRemote>>

\* decodeLatestFrameLocked: without data, or with data that cannot be decoded,
\* the image that is there stays.
Decode(c) == picture' = IF c \in frames THEN c ELSE picture

\* Faulty variant: a frame draws what a.state has.
FrameAsIs ==
  /\ Awake \/ windows # {}
  /\ client # None
  /\ UNCHANGED <<ofClient, shut, display, ofSettings, ofJobs, ofRemote>>

\* currentState, and frameSnapshot of the remote window, which draws also while
\* the frame loop of the main window closes a client.
Frame ==
  /\ Awake \/ windows # {}
  /\ client # None
  /\ shown' = client /\ Decode(client)
  /\ UNCHANGED <<ofClient, shut, frames, forwards, ofSettings, ofJobs, ofRemote>>

\* handleClientEvent opens the window for session.ready of a session in which
\* the current client controls; this is the rest, applyState.  The goroutines
\* of other presses do the same when they are done.
ForwardEvent(c) ==
  /\ ~shut /\ c \in forwards
  /\ shown' = c /\ Decode(c)
  /\ UNCHANGED <<ofClient, shut, frames, forwards, ofSettings, ofJobs, ofRemote>>

\* openRemoteWindow, for a press or session.ready; a window that is there is
\* only raised.
OpenRemoteWindow(w) ==
  /\ ~shut /\ remote = None /\ w \notin windows
  /\ remote' = w /\ windows' = windows \cup {w}
  /\ UNCHANGED <<ofClient, shut, display, ofSettings, ofJobs>>

\* DestroyEvent of the remote window.
RemoteDestroyed(w) ==
  /\ w \in windows
  /\ windows' = windows \ {w}
  /\ remote' = IF remote = w THEN None ELSE remote
  /\ UNCHANGED <<ofClient, shut, display, ofSettings, ofJobs>>

-----------------------------------------------------------------------------
(* Jobs: requestSession, createWebShare, refreshWebShares,                 *)
(* revokeSelectedWebShare, checkForUpdates.  Each has a flag and a deadline. *)

Begins(kind) ==
  /\ kind \notin busy /\ Cardinality(busy) < MaxJobs
  /\ busy' = busy \cup {kind} /\ jobs' = [jobs EXCEPT ![kind] = @ + 1]

\* Faulty variant: without a target the flag stays.
RequestNoTarget(target) ==
  /\ Awake /\ client # None /\ "request" \notin busy
  /\ busy' = busy \cup {"request"}
  /\ jobs' = IF target THEN [jobs EXCEPT !["request"] = @ + 1] ELSE jobs
  /\ UNCHANGED <<ofClient, shut, display, ofSettings, ofRemote>>

\* Without a target the flag is taken back at once.
RequestSession(target) ==
  /\ Awake /\ client # None
  /\ IF target THEN Begins("request") ELSE "request" \notin busy /\ UNCHANGED ofJobs
  /\ UNCHANGED <<ofClient, shut, display, ofSettings, ofRemote>>

WebShareAction ==
  /\ Awake /\ client # None
  /\ Begins("web")
  /\ UNCHANGED <<ofClient, shut, display, ofSettings, ofRemote>>

CheckForUpdates ==
  /\ Awake
  /\ Begins("update")
  /\ UNCHANGED <<ofClient, shut, display, ofSettings, ofRemote>>

\* The message was written or not, the release found or not.
JobDone(kind) ==
  /\ kind # "save" /\ jobs[kind] > 0
  /\ busy' = busy \ {kind} /\ jobs' = [jobs EXCEPT ![kind] = @ - 1]
  /\ UNCHANGED <<ofClient, shut, display, ofSettings, ofRemote>>

-----------------------------------------------------------------------------
(* saveSettings                                                            *)

SaveSettings ==
  /\ Awake /\ settings < MaxSaves
  /\ Begins("save")
  /\ next' = settings + 1
  /\ UNCHANGED <<ofClient, shut, display, opts, settings, applies, settled, ofRemote>>

\* The registry or the file refuses.
SaveFails ==
  /\ jobs["save"] > 0
  /\ busy' = busy \ {"save"} /\ jobs' = [jobs EXCEPT !["save"] = @ - 1]
  /\ next' = settings
  /\ UNCHANGED <<ofClient, shut, display, opts, settings, applies, settled, ofRemote>>

\* Faulty variant: the settings are handed on only to a client installed later.
SavedForLater ==
  /\ jobs["save"] > 0
  /\ busy' = busy \ {"save"} /\ jobs' = [jobs EXCEPT !["save"] = @ - 1]
  /\ settings' = next
  /\ settled' = (applies = {} /\ \A k \in Connectors : connect[k].at = "idle")
  /\ UNCHANGED <<ofClient, shut, display, opts, next, applies, ofRemote>>

\* They are saved: the flag goes down and the window has them; the client that
\* is installed now gets them afterwards, without a.mu.
Saved ==
  /\ jobs["save"] > 0
  /\ busy' = busy \ {"save"} /\ jobs' = [jobs EXCEPT !["save"] = @ - 1]
  /\ settings' = next
  /\ applies' = IF client = None THEN applies
                ELSE applies \cup {[client |-> client, version |-> next]}
  /\ settled' = (applies = {} /\ \A k \in Connectors : connect[k].at = "idle")
  /\ UNCHANGED <<ofClient, shut, display, opts, next, ofRemote>>

\* UpdateOptions, then applyState.
UpdateOptions(a) ==
  /\ a \in applies
  /\ opts' = [opts EXCEPT ![a.client] = a.version]
  /\ applies' = applies \ {a}
  /\ shown' = a.client /\ Decode(a.client)
  /\ UNCHANGED <<ofClient, shut, frames, forwards, settings, next, settled, ofJobs, ofRemote>>

-----------------------------------------------------------------------------
ConnectorNext(k) ==
  \/ (\E c \in Clients : StartOk(k, c)) \/ StartFails(k)
  \/ Install(k) \/ LoserCloses(k)

SaverNext == SaveFails \/ Saved

Press ==
  \/ \E k \in Connectors : Connect(k)
  \/ Disconnect \/ Shutdown
  \/ \E target \in BOOLEAN : RequestSession(target)
  \/ WebShareAction \/ CheckForUpdates \/ SaveSettings

Next ==
  \/ Press \/ Frame \/ CloseTaken \/ SaverNext
  \/ \E k \in Connectors : ConnectorNext(k)
  \/ \E c \in Clients : FrameReceived(c) \/ ForwardEvent(c)
  \/ \E w \in Windows : OpenRemoteWindow(w) \/ RemoteDestroyed(w)
  \/ \E kind \in Kinds : JobDone(kind)
  \/ \E a \in applies : UpdateOptions(a)

Spec == Init /\ [][Next]_vars

\* Close returns, after two seconds at most, and the ticker draws a frame every
\* second.  Nothing is asked of the others: a Start takes as long as its dial,
\* and a request waits for the client's writeMu without its own deadline of five
\* seconds (client.go:591).
FairSpec == Spec /\ WF_vars(CloseTaken) /\ WF_vars(Frame)

-----------------------------------------------------------------------------
(* Properties                                                              *)

\* However presses, auto-connect, disconnecting and the end of the program
\* follow each other, a client with a connection to the relay is the installed
\* one, or in the hands of who installs or closes it; and the remote window that
\* is open is a.remote (app.go:635-685, 1016-1050; remote.go:70-76).
NothingStray ==
  /\ \A c \in Clients : status[c] = "live" =>
       c \in {client, taken} \cup {connect[k].client : k \in Connectors}
  /\ windows = {remote} \ {None}

\* A flag that refuses further presses is up exactly while a goroutine that will
\* take it down is there, and there is one at most (app.go:687-735, 1525-1700).
FlagsMeanJobs == \A kind \in Kinds : jobs[kind] = IF kind \in busy THEN 1 ELSE 0

\* "Settings saved. Runtime settings apply to the current connection
\* immediately" (app.go:1590): they do once UpdateOptions was called, unless
\* saves overlapped or a connect was under way.
SettingsReachClient ==
  settled /\ applies = {} /\ client # None => opts[client] = settings

\* While a client is installed, the window comes back to its State, and to its
\* picture if it has one, whatever late events of a closed client have put there.
\* Without a client they stay, and so does an old picture until the installed
\* client has one of its own (app.go:856-945).
DisplayCatchesUp ==
  \A c \in Clients :
    client = c ~> \/ shown = c /\ (c \in frames => picture = c)
                  \/ client # c \/ shut
=============================================================================
