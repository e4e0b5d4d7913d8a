------------------------- MODULE DesktopApp_proofs -------------------------
(***************************************************************************)
(* The window of the client, for any number of clients, connectors, remote *)
(* windows and saves: no client that is connected gets out of hand, flags  *)
(* and jobs go together, and settings that are saved reach the client.     *)
(***************************************************************************)
EXTENDS DesktopApp, TLAPS

USE AppAssumption

-----------------------------------------------------------------------------
(* The inductive invariant.                                                *)

\* A connector has a client from Start until it installs or closes it.
Hands ==
  \A k \in Connectors :
    /\ connect[k].at \in {"idle", "start"} => connect[k].client = None
    /\ connect[k].at \in {"install", "close"} => connect[k].client \in Clients

\* A client that was installed, and so one that is still to get settings, was
\* started, so no connector starts it again.
Started ==
  /\ client # None => status[client] # "none"
  /\ \A a \in applies : status[a.client] # "none"

\* A client in the hands of a connector is not installed, was never, and is in
\* the hands of no other.
Apart ==
  \A k \in Connectors : connect[k].client # None =>
    /\ status[connect[k].client] # "none"
    /\ connect[k].client # client
    /\ \A a \in applies : a.client # connect[k].client
    /\ \A l \in Connectors : connect[l].client = connect[k].client => l = k

\* It has the settings that its connector has read.
AsRead ==
  \A k \in Connectors : connect[k].at = "install" =>
    opts[connect[k].client] = connect[k].version

\* Settings on their way are the last ones, and meant for the client that is
\* installed, when saves and connects do not overlap.
Meant ==
  settled => \A a \in applies : a.version = settings /\ client \in {a.client, None}

Ownership == Hands /\ Started /\ Apart
SettingsInv == AsRead /\ Meant /\ SettingsReachClient
AppInv == TypeOK /\ FlagsMeanJobs /\ NothingStray /\ Ownership /\ SettingsInv

-----------------------------------------------------------------------------
(* Steps that leave clients and settings alone, and the others.            *)

Aside ==
  \/ Frame \/ WebShareAction \/ CheckForUpdates \/ SaveSettings \/ SaveFails
  \/ \E target \in BOOLEAN : RequestSession(target)
  \/ \E c \in Clients : FrameReceived(c) \/ ForwardEvent(c)
  \/ \E w \in Windows : OpenRemoteWindow(w) \/ RemoteDestroyed(w)
  \/ \E kind \in Kinds : JobDone(kind)

ClientStep ==
  \/ \E k \in Connectors : Connect(k) \/ StartFails(k) \/ Install(k) \/ LoserCloses(k)
  \/ \E k \in Connectors, c \in Clients : StartOk(k, c)
  \/ Disconnect \/ Shutdown \/ CloseTaken

SettingsStep == Saved \/ \E a \in applies : UpdateOptions(a)

LEMMA Steps == Next => Aside \/ ClientStep \/ SettingsStep
  BY DEF Next, Press, ConnectorNext, SaverNext, Aside, ClientStep, SettingsStep

LEMMA AsideKeeps == Aside => UNCHANGED <<ofClient, opts, settings, applies, settled>>
  BY DEF Aside, Frame, WebShareAction, CheckForUpdates, SaveSettings, SaveFails,
     RequestSession, FrameReceived, ForwardEvent, OpenRemoteWindow, RemoteDestroyed, JobDone,
     ofClient, ofSettings

LEMMA ClientStepKeeps == ClientStep => UNCHANGED <<settings, next, applies, ofJobs, ofRemote>>
  BY DEF ClientStep, Connect, StartFails, Install, LoserCloses, StartOk, Disconnect,
     Shutdown, CloseTaken, ofClient, ofSettings

LEMMA SettingsStepKeeps == SettingsStep => UNCHANGED <<ofClient, next, ofRemote>>
  BY DEF SettingsStep, Saved, UpdateOptions

LEMMA AwayFields ==
  Away.at = "idle" /\ Away.client = None /\ Away.version = 0
  BY DEF Away

-----------------------------------------------------------------------------
(* Flags and jobs.                                                         *)

LEMMA FlagsStep ==
  ASSUME TypeOK, FlagsMeanJobs, [Next]_vars
  PROVE  FlagsMeanJobs'
<1> USE DEF TypeOK, FlagsMeanJobs
<1>1. CASE UNCHANGED <<busy, jobs>>
  BY <1>1
<1>2. ASSUME NEW kind \in Kinds, Begins(kind)
      PROVE  FlagsMeanJobs'
  BY <1>2 DEF Begins
<1>3. ASSUME NEW kind \in Kinds, jobs[kind] > 0,
             busy' = busy \ {kind}, jobs' = [jobs EXCEPT ![kind] = @ - 1]
      PROVE  FlagsMeanJobs'
  BY <1>3
<1>4. {"request", "web", "save", "update"} \subseteq Kinds
  BY DEF Kinds
<1>5. CASE Aside
  <2>1. ASSUME NEW target \in BOOLEAN, RequestSession(target)
        PROVE  UNCHANGED <<busy, jobs>> \/ Begins("request")
    BY <2>1 DEF RequestSession, ofJobs
  <2>2. WebShareAction => Begins("web")
    BY DEF WebShareAction
  <2>3. CheckForUpdates => Begins("update")
    BY DEF CheckForUpdates
  <2>4. SaveSettings => Begins("save")
    BY DEF SaveSettings
  <2>5. SaveFails => FlagsMeanJobs'
    BY <1>3, <1>4 DEF SaveFails
  <2>6. ASSUME NEW kind \in Kinds, JobDone(kind)
        PROVE  FlagsMeanJobs'
    BY <1>3, <2>6 DEF JobDone
  <2>7. ASSUME Frame \/ (\E c \in Clients : FrameReceived(c) \/ ForwardEvent(c))
               \/ (\E w \in Windows : OpenRemoteWindow(w) \/ RemoteDestroyed(w))
        PROVE  UNCHANGED <<busy, jobs>>
    BY <2>7 DEF Frame, FrameReceived, ForwardEvent, OpenRemoteWindow, RemoteDestroyed, ofJobs
  <2> HIDE DEF TypeOK, FlagsMeanJobs
  <2> QED BY <1>1, <1>2, <1>4, <1>5, <2>1, <2>2, <2>3, <2>4, <2>5, <2>6, <2>7 DEF Aside
<1>6. CASE ClientStep
  BY <1>1, <1>6, ClientStepKeeps DEF ofJobs
<1>7. CASE SettingsStep
  <2>1. Saved => FlagsMeanJobs'
    BY <1>3, <1>4 DEF Saved
  <2>2. ASSUME NEW a \in applies, UpdateOptions(a)
        PROVE  UNCHANGED <<busy, jobs>>
    BY <2>2 DEF UpdateOptions, ofJobs
  <2> QED BY <1>1, <1>7, <2>1, <2>2 DEF SettingsStep
<1>8. CASE UNCHANGED vars
  BY <1>1, <1>8 DEF vars, ofJobs
<1> QED BY <1>5, <1>6, <1>7, <1>8, Steps

-----------------------------------------------------------------------------
(* Types.                                                                  *)

LEMMA JobTypes ==
  ASSUME busy \subseteq Kinds, jobs \in [Kinds -> 0 .. 2], FlagsMeanJobs'
  PROVE  /\ \A kind \in Kinds : Begins(kind) =>
              busy' \subseteq Kinds /\ jobs' \in [Kinds -> 0 .. 2]
         /\ \A kind \in Kinds :
              /\ jobs[kind] > 0 /\ busy' = busy \ {kind}
              /\ jobs' = [jobs EXCEPT ![kind] = @ - 1]
              => busy' \subseteq Kinds /\ jobs' \in [Kinds -> 0 .. 2]
<1>1. ASSUME NEW kind \in Kinds, Begins(kind)
      PROVE  busy' \subseteq Kinds /\ jobs' \in [Kinds -> 0 .. 2]
  <2>1. jobs'[kind] = jobs[kind] + 1 /\ jobs'[kind] \in {0, 1}
    BY <1>1 DEF Begins, FlagsMeanJobs
  <2>2. jobs[kind] + 1 \in 0 .. 2
    BY <2>1
  <2> QED BY <1>1, <2>2 DEF Begins
<1>2. ASSUME NEW kind \in Kinds, jobs[kind] > 0, busy' = busy \ {kind},
             jobs' = [jobs EXCEPT ![kind] = @ - 1]
      PROVE  busy' \subseteq Kinds /\ jobs' \in [Kinds -> 0 .. 2]
  BY <1>2
<1> QED BY <1>1, <1>2

\* What the windows show.
DisplayTypes ==
  /\ shown \in Clients \cup {None} /\ picture \in Clients \cup {None}
  /\ frames \subseteq Clients /\ forwards \subseteq Clients

LEMMA DisplayStep ==
  ASSUME TypeOK, Hands, [Next]_vars
  PROVE  DisplayTypes'
<1> DisplayTypes
  BY DEF TypeOK, DisplayTypes
<1>a. \A c \in Clients : Decode(c) => picture' \in Clients \cup {None}
  BY DEF Decode, DisplayTypes
<1>1. CASE UNCHANGED display
  BY <1>1 DEF display, DisplayTypes
<1>2. CASE Frame
  <2>1. client \in Clients
    BY <1>2 DEF Frame, TypeOK
  <2> QED BY <1>2, <1>a, <2>1 DEF Frame, DisplayTypes
<1>3. ASSUME NEW c \in Clients, FrameReceived(c) \/ ForwardEvent(c)
      PROVE  DisplayTypes'
  BY <1>3, <1>a DEF FrameReceived, ForwardEvent, DisplayTypes
<1>4. ASSUME NEW k \in Connectors, Install(k)
      PROVE  DisplayTypes'
  <2>1. connect[k].client \in Clients
    BY <1>4 DEF Hands, Install
  <2>2. CASE client # None
    <3>1. UNCHANGED <<shown, picture, frames, forwards>>
      BY <1>4, <2>2 DEF Install
    <3> QED BY <3>1 DEF DisplayTypes
  <2>3. CASE client = None
    <3>1. /\ shown' = connect[k].client /\ forwards' = forwards \cup {connect[k].client}
          /\ UNCHANGED <<picture, frames>>
      BY <1>4, <2>3 DEF Install
    <3> QED BY <2>1, <3>1 DEF DisplayTypes
  <2> QED BY <2>2, <2>3
<1>5. CASE Disconnect
  BY <1>5 DEF Disconnect, DisplayTypes
<1>6. ASSUME NEW a \in applies, UpdateOptions(a)
      PROVE  DisplayTypes'
  <2>1. a.client \in Clients
    BY DEF TypeOK
  <2> QED BY <1>6, <1>a, <2>1 DEF UpdateOptions, DisplayTypes
<1>7. [Next]_vars =>
        \/ UNCHANGED display \/ Frame \/ Disconnect
        \/ \E c \in Clients : FrameReceived(c) \/ ForwardEvent(c)
        \/ \E k \in Connectors : Install(k)
        \/ \E a \in applies : UpdateOptions(a)
  BY DEF Next, Press, ConnectorNext, SaverNext, Connect, StartOk, StartFails, LoserCloses,
     Shutdown, CloseTaken, OpenRemoteWindow, RemoteDestroyed, RequestSession,
     WebShareAction, CheckForUpdates, JobDone, SaveSettings, SaveFails, Saved, vars
<1> QED BY <1>1, <1>2, <1>3, <1>4, <1>5, <1>6, <1>7

LEMMA TypeStep ==
  ASSUME TypeOK, Hands, FlagsMeanJobs', [Next]_vars
  PROVE  TypeOK'
<1>0. DisplayTypes'
  BY DisplayStep
<1> USE <1>0 DEF DisplayTypes
<1> DEFINE Places == [at : {"idle", "start", "install", "close"},
                      client : Clients \cup {None}, version : Versions]
<1>a. Away \in Places
  BY DEF Away, Versions
<1>b. \A x \in Places, at \in {"idle", "start", "install", "close"} :
        [x EXCEPT !.at = at] \in Places
  OBVIOUS
<1>1. CASE Aside
  <2>1. UNCHANGED <<ofClient, opts, settings, applies, settled>>
    BY <1>1, AsideKeeps
  <2>2. busy' \subseteq Kinds /\ jobs' \in [Kinds -> 0 .. 2]
    <3> busy \subseteq Kinds /\ jobs \in [Kinds -> 0 .. 2]
      BY DEF TypeOK
    <3>1. {"request", "web", "save", "update"} \subseteq Kinds
      BY DEF Kinds
    <3>2. ASSUME NEW target \in BOOLEAN, RequestSession(target)
          PROVE  UNCHANGED <<busy, jobs>> \/ Begins("request")
      BY <3>2 DEF RequestSession, ofJobs
    <3>3. ASSUME Frame \/ (\E c \in Clients : FrameReceived(c) \/ ForwardEvent(c))
                 \/ (\E w \in Windows : OpenRemoteWindow(w) \/ RemoteDestroyed(w))
          PROVE  UNCHANGED <<busy, jobs>>
      BY <3>3 DEF Frame, FrameReceived, ForwardEvent, OpenRemoteWindow, RemoteDestroyed, ofJobs
    <3>4. WebShareAction \/ CheckForUpdates \/ SaveSettings =>
            \E kind \in Kinds : Begins(kind)
      BY <3>1 DEF WebShareAction, CheckForUpdates, SaveSettings
    <3>5. SaveFails \/ (\E kind \in Kinds : JobDone(kind)) =>
            \E kind \in Kinds : /\ jobs[kind] > 0 /\ busy' = busy \ {kind}
                                /\ jobs' = [jobs EXCEPT ![kind] = @ - 1]
      BY <3>1 DEF SaveFails, JobDone
    <3> QED BY <1>1, <3>1, <3>2, <3>3, <3>4, <3>5, JobTypes DEF Aside
  <2>3. next' \in Versions
    BY <1>1 DEF TypeOK, Versions, Aside, Frame, WebShareAction, CheckForUpdates, SaveSettings,
       SaveFails, RequestSession, FrameReceived, ForwardEvent, OpenRemoteWindow, RemoteDestroyed,
       JobDone, ofSettings
  <2>4. remote' \in Windows \cup {None} /\ windows' \subseteq Windows
    BY <1>1 DEF TypeOK, Aside, Frame, WebShareAction, CheckForUpdates, SaveSettings,
       SaveFails, RequestSession, FrameReceived, ForwardEvent, OpenRemoteWindow, RemoteDestroyed,
       JobDone, ofRemote
  <2>5. shut' \in BOOLEAN
    BY <1>1 DEF TypeOK, Aside, Frame, WebShareAction, CheckForUpdates, SaveSettings,
       SaveFails, RequestSession, FrameReceived, ForwardEvent, OpenRemoteWindow, RemoteDestroyed,
       JobDone
  <2> QED BY <2>1, <2>2, <2>3, <2>4, <2>5 DEF TypeOK, ofClient
<1>2. CASE ClientStep
  <2>1. UNCHANGED <<settings, next, applies, ofJobs, ofRemote>>
    BY <1>2, ClientStepKeeps
  <2>2. ASSUME NEW k \in Connectors, Connect(k)
        PROVE  TypeOK'
    <3>1. connect' \in [Connectors -> Places]
      BY <2>2, AwayFields DEF Connect, TypeOK
    <3> QED BY <2>1, <2>2, <3>1 DEF TypeOK, Connect, ofSettings, ofJobs, ofRemote
  <2>3. ASSUME NEW k \in Connectors, StartFails(k)
        PROVE  TypeOK'
    BY <2>1, <2>3 DEF TypeOK, StartFails, Away, Versions, ofSettings, ofJobs, ofRemote
  <2>4. ASSUME NEW k \in Connectors, NEW c \in Clients, StartOk(k, c)
        PROVE  TypeOK'
    <3>1. connect' \in [Connectors -> Places]
      <4>1. connect \in [Connectors -> Places]
        BY DEF TypeOK
      <4>2. connect' = [connect EXCEPT ![k].at = "install", ![k].client = c]
        BY <2>4 DEF StartOk
      <4>3. \A x \in Places : [x EXCEPT !.at = "install", !.client = c] \in Places
        OBVIOUS
      <4>4. connect' = [connect EXCEPT ![k] = [connect[k] EXCEPT !.at = "install", !.client = c]]
        BY <4>1, <4>2
      <4> HIDE DEF Places
      <4> QED BY <4>1, <4>3, <4>4
    <3>2. /\ status' \in [Clients -> {"none", "live", "closed"}]
          /\ opts' \in [Clients -> Versions]
      BY <2>4 DEF TypeOK, StartOk
    <3> QED BY <2>1, <2>4, <3>1, <3>2 DEF TypeOK, StartOk, ofJobs, ofRemote
  <2>5. ASSUME NEW k \in Connectors, Install(k)
        PROVE  TypeOK'
    <3>1. connect[k].client \in Clients
      BY <2>5 DEF Hands, Install
    <3>2. connect' \in [Connectors -> Places]
      <4> connect \in [Connectors -> Places]
        BY DEF TypeOK
      <4>0. connect[k] \in Places
        BY DEF TypeOK
      <4>1. connect' = [connect EXCEPT ![k] = [connect[k] EXCEPT !.at = "close"]]
            \/ connect' = [connect EXCEPT ![k] = Away]
        BY <2>5 DEF Install
      <4> HIDE DEF Places
      <4> QED BY <1>a, <1>b, <4>0, <4>1
    <3>3. client' \in Clients \cup {None} /\ settled' \in BOOLEAN
      BY <2>5, <3>1 DEF Install, TypeOK
    <3> QED BY <2>1, <2>5, <3>2, <3>3 DEF TypeOK, Install, ofJobs, ofRemote
  <2>6. ASSUME NEW k \in Connectors, LoserCloses(k)
        PROVE  TypeOK'
    <3>1. connect' \in [Connectors -> Places]
      <4> connect \in [Connectors -> Places]
        BY DEF TypeOK
      <4> HIDE DEF Places
      <4> QED BY <2>6, <1>a DEF LoserCloses
    <3>2. status' \in [Clients -> {"none", "live", "closed"}]
      BY <2>6 DEF LoserCloses, TypeOK
    <3> QED BY <2>1, <2>6, <3>1, <3>2 DEF TypeOK, LoserCloses, ofSettings, ofJobs, ofRemote
  <2>7. CASE Disconnect \/ Shutdown \/ CloseTaken
    BY <2>1, <2>7 DEF TypeOK, Disconnect, Shutdown, CloseTaken, Awake, ofSettings, ofJobs,
       ofRemote
  <2> QED BY <1>2, <2>2, <2>3, <2>4, <2>5, <2>6, <2>7 DEF ClientStep
<1>3. CASE SettingsStep
  <2>1. UNCHANGED <<ofClient, next, ofRemote>>
    BY <1>3, SettingsStepKeeps
  <2>2. CASE Saved
    <3>1. busy' \subseteq Kinds /\ jobs' \in [Kinds -> 0 .. 2]
      BY <2>2, JobTypes DEF Saved, Kinds, TypeOK
    <3>2. applies' \subseteq [client : Clients, version : Versions] /\ settings' \in Versions
      BY <2>2 DEF Saved, TypeOK
    <3> QED BY <2>1, <2>2, <3>1, <3>2 DEF Saved, TypeOK, ofClient, ofRemote
  <2>3. ASSUME NEW a \in applies, UpdateOptions(a)
        PROVE  TypeOK'
    BY <2>1, <2>3 DEF TypeOK, UpdateOptions, ofClient, ofJobs, ofRemote
  <2> QED BY <1>3, <2>2, <2>3 DEF SettingsStep
<1>4. CASE UNCHANGED vars
  BY <1>4 DEF TypeOK, vars, ofClient, ofSettings, ofJobs, ofRemote
<1> QED BY <1>1, <1>2, <1>3, <1>4, Steps

-----------------------------------------------------------------------------
(* Nobody is left with a connection.                                       *)

LEMMA StrayStep ==
  ASSUME TypeOK, Hands, NothingStray, [Next]_vars
  PROVE  NothingStray'
<1> DEFINE Kept == \A c \in Clients : status[c] = "live" =>
                     c \in {client, taken} \cup {connect[k].client : k \in Connectors}
           Raised == windows = {remote} \ {None}
<1> Kept /\ Raised
  BY DEF NothingStray
<1>1. Raised'
  <2>1. ASSUME NEW w \in Windows, OpenRemoteWindow(w) \/ RemoteDestroyed(w)
        PROVE  Raised'
    BY <2>1 DEF OpenRemoteWindow, RemoteDestroyed
  <2>2. Aside => (remote' = remote /\ windows' = windows)
               \/ \E w \in Windows : OpenRemoteWindow(w) \/ RemoteDestroyed(w)
    BY DEF Aside, Frame, WebShareAction, CheckForUpdates, SaveSettings, SaveFails,
       RequestSession, FrameReceived, ForwardEvent, JobDone, ofRemote
  <2> QED BY <2>1, <2>2, Steps, ClientStepKeeps, SettingsStepKeeps DEF vars, ofRemote
<1> SUFFICES Kept'
  BY <1>1 DEF NothingStray
<1>2. CASE UNCHANGED ofClient
  BY <1>2 DEF ofClient
<1>3. CASE ClientStep
  <2>1. ASSUME NEW k \in Connectors, Connect(k) \/ StartFails(k)
        PROVE  Kept'
    BY <2>1 DEF Connect, StartFails, Hands, TypeOK, Away
  <2>2. ASSUME NEW k \in Connectors, NEW c \in Clients, StartOk(k, c)
        PROVE  Kept'
    BY <2>2 DEF StartOk, Hands, TypeOK
  <2>3. ASSUME NEW k \in Connectors, Install(k)
        PROVE  Kept'
    BY <2>3 DEF Install, Hands, TypeOK, Away
  <2>4. ASSUME NEW k \in Connectors, LoserCloses(k)
        PROVE  Kept'
    BY <2>4 DEF LoserCloses, Hands, TypeOK, Away
  <2>5. CASE Disconnect \/ Shutdown \/ CloseTaken
    BY <2>5 DEF Disconnect, Shutdown, CloseTaken, Awake, TypeOK
  <2> HIDE DEF Kept
  <2> QED BY <1>3, <2>1, <2>2, <2>3, <2>4, <2>5 DEF ClientStep
<1> HIDE DEF Kept
<1> QED BY <1>2, <1>3, Steps, AsideKeeps, SettingsStepKeeps DEF vars

LEMMA OwnershipStep ==
  ASSUME TypeOK, Ownership, [Next]_vars
  PROVE  Ownership'
<1> USE DEF Ownership
<1>1. CASE UNCHANGED <<ofClient, applies>>
  BY <1>1 DEF ofClient, Hands, Started, Apart
<1>2. CASE ClientStep
  <2>1. applies' = applies
    BY <1>2, ClientStepKeeps
  <2>2. ASSUME NEW k \in Connectors, Connect(k) \/ StartFails(k)
        PROVE  Ownership'
    <3>1. /\ UNCHANGED <<client, status>> /\ applies' = applies
          /\ \A l \in Connectors \ {k} : connect'[l] = connect[l]
          /\ connect'[k].client = None /\ connect'[k].at \in {"idle", "start"}
      BY <2>1, <2>2, AwayFields DEF Connect, StartFails, TypeOK
    <3>2. Hands'
      BY <3>1 DEF Hands
    <3>3. Started'
      BY <3>1 DEF Started
    <3>4. Apart'
      BY <3>1 DEF Apart
    <3> QED BY <3>2, <3>3, <3>4
  <2>3. ASSUME NEW k \in Connectors, NEW c \in Clients, StartOk(k, c)
        PROVE  Ownership'
    <3>1. /\ connect' = [connect EXCEPT ![k].at = "install", ![k].client = c]
          /\ status' = [status EXCEPT ![c] = "live"] /\ status[c] = "none"
          /\ client' = client /\ applies' = applies
      BY <2>1, <2>3 DEF StartOk
    <3>2. \A l \in Connectors : connect[l].client # c
      BY <3>1 DEF Apart
    <3>3. Hands'
      BY <3>1 DEF Hands, TypeOK
    <3>4. Started'
      BY <3>1 DEF Started, TypeOK
    <3>5. Apart'
      BY <3>1, <3>2 DEF Apart, Started, TypeOK
    <3> QED BY <3>3, <3>4, <3>5
  <2>4. ASSUME NEW k \in Connectors, Install(k)
        PROVE  Ownership'
    BY <2>1, <2>4 DEF Install, Hands, Started, Apart, TypeOK, Away
  <2>5. ASSUME NEW k \in Connectors, LoserCloses(k)
        PROVE  Ownership'
    BY <2>1, <2>5 DEF LoserCloses, Hands, Started, Apart, TypeOK, Away
  <2>6. CASE Disconnect \/ Shutdown \/ CloseTaken
    BY <2>1, <2>6 DEF Disconnect, Shutdown, CloseTaken, Awake, Hands, Started, Apart, TypeOK
  <2> HIDE DEF Ownership
  <2> QED BY <1>2, <2>2, <2>3, <2>4, <2>5, <2>6 DEF ClientStep
<1>3. CASE SettingsStep
  <2>1. UNCHANGED ofClient
    BY <1>3, SettingsStepKeeps
  <2>2. \A a \in applies' : a \in applies \/ (client # None /\ a.client = client)
    <3>1. CASE Saved
      BY <3>1 DEF Saved
    <3>2. ASSUME NEW a \in applies, UpdateOptions(a)
          PROVE  applies' \subseteq applies
      BY <3>2 DEF UpdateOptions
    <3> QED BY <1>3, <3>1, <3>2 DEF SettingsStep
  <2> QED BY <2>1, <2>2 DEF ofClient, Hands, Started, Apart
<1> QED BY <1>1, <1>2, <1>3, Steps, AsideKeeps DEF vars, ofSettings

-----------------------------------------------------------------------------
(* What is saved reaches the client.                                       *)

LEMMA SettingsInvStep ==
  ASSUME TypeOK, Ownership, SettingsInv, [Next]_vars
  PROVE  SettingsInv'
<1> USE DEF SettingsInv, Ownership
<1>1. CASE UNCHANGED <<ofClient, opts, settings, applies, settled>>
  BY <1>1 DEF ofClient, AsRead, Meant, SettingsReachClient
<1>2. CASE ClientStep
  <2>1. UNCHANGED <<settings, applies>>
    BY <1>2, ClientStepKeeps
  <2>2. ASSUME NEW k \in Connectors, Connect(k) \/ StartFails(k) \/ LoserCloses(k)
        PROVE  SettingsInv'
    <3>1. /\ UNCHANGED <<client, opts, settings, applies, settled>>
          /\ \A l \in Connectors \ {k} : connect'[l] = connect[l]
          /\ connect'[k].at \in {"idle", "start"}
      BY <2>2, AwayFields DEF Connect, StartFails, LoserCloses, ofSettings, TypeOK
    <3> QED BY <3>1 DEF AsRead, Meant, SettingsReachClient
  <2>3. ASSUME NEW k \in Connectors, NEW c \in Clients, StartOk(k, c)
        PROVE  SettingsInv'
    <3>1. \A l \in Connectors : connect[l].client # c
      BY <2>3 DEF Apart, StartOk
    <3>2. client # c
      BY <2>3 DEF Started, StartOk
    <3> QED BY <2>1, <2>3, <3>1, <3>2 DEF StartOk, AsRead, Meant, SettingsReachClient, TypeOK
  <2>4. ASSUME NEW k \in Connectors, Install(k)
        PROVE  SettingsInv'
    <3>1. /\ UNCHANGED <<opts, settings, applies>>
          /\ \A l \in Connectors \ {k} : connect'[l] = connect[l]
          /\ connect'[k].at \in {"idle", "close"}
      BY <2>1, <2>4 DEF Install, TypeOK, Away
    <3>2. CASE client # None
      BY <2>4, <3>1, <3>2 DEF Install, AsRead, Meant, SettingsReachClient
    <3>3. CASE client = None
      <4>1. client' = connect[k].client
            /\ settled' = (applies = {} /\ connect[k].version = settings)
            /\ connect[k].at = "install"
        BY <2>4, <3>3 DEF Install
      <4> QED BY <3>1, <4>1 DEF AsRead, Meant, SettingsReachClient
    <3> QED BY <3>2, <3>3
  <2>5. CASE Disconnect \/ Shutdown \/ CloseTaken
    BY <2>1, <2>5 DEF Disconnect, Shutdown, CloseTaken, Awake, ofSettings, AsRead, Meant,
       SettingsReachClient, TypeOK
  <2> HIDE DEF SettingsInv
  <2> QED BY <1>2, <2>2, <2>3, <2>4, <2>5 DEF ClientStep
<1>3. CASE Saved
  <2>1. UNCHANGED <<client, connect, opts>> /\ settings' = next
        /\ settled' = (applies = {} /\ \A k \in Connectors : connect[k].at = "idle")
    BY <1>3 DEF Saved, ofClient
  <2>2. applies' = IF client = None THEN applies
                   ELSE applies \cup {[client |-> client, version |-> next]}
    BY <1>3 DEF Saved
  <2>3. AsRead'
    BY <2>1 DEF AsRead
  <2>4. Meant'
    <3> SUFFICES ASSUME settled', NEW a \in applies'
                 PROVE  a.version = settings' /\ client' \in {a.client, None}
      BY DEF Meant
    <3>1. applies = {}
      BY <2>1
    <3>2. client # None /\ a = [client |-> client, version |-> next]
      BY <2>2, <3>1
    <3> QED BY <2>1, <3>2
  <2>5. SettingsReachClient'
    BY <2>1, <2>2 DEF SettingsReachClient
  <2> QED BY <2>3, <2>4, <2>5
<1>4. ASSUME NEW a \in applies, UpdateOptions(a)
      PROVE  SettingsInv'
  <2>1. UNCHANGED <<client, connect, settings, settled>> /\ applies' = applies \ {a}
        /\ opts' = [opts EXCEPT ![a.client] = a.version]
    BY <1>4 DEF UpdateOptions, ofClient
  <2>2. AsRead'
    BY <2>1 DEF AsRead, Apart, Hands, TypeOK
  <2>3. Meant'
    BY <2>1 DEF Meant
  <2>4. SettingsReachClient'
    BY <2>1 DEF Meant, SettingsReachClient, TypeOK
  <2> QED BY <2>2, <2>3, <2>4
<1> QED BY <1>1, <1>2, <1>3, <1>4, Steps, AsideKeeps DEF SettingsStep, vars, ofSettings

-----------------------------------------------------------------------------
LEMMA AppInit == Init => AppInv
<1> SUFFICES ASSUME Init PROVE AppInv
  OBVIOUS
<1>1. TypeOK
  <2>1. 0 \in Versions
    BY DEF Versions
  <2>2. connect \in [Connectors -> [at : {"idle", "start", "install", "close"},
                                   client : Clients \cup {None}, version : Versions]]
    BY <2>1 DEF Init, Away
  <2>3. /\ status \in [Clients -> {"none", "live", "closed"}]
        /\ opts \in [Clients -> Versions] /\ jobs \in [Kinds -> 0 .. 2]
    BY <2>1 DEF Init
  <2> QED BY <2>1, <2>2, <2>3 DEF Init, TypeOK
<1>2. FlagsMeanJobs /\ NothingStray
  BY DEF Init, FlagsMeanJobs, NothingStray
<1>3. Ownership
  BY DEF Init, Ownership, Hands, Started, Apart, Away
<1>4. SettingsInv
  BY DEF Init, SettingsInv, AsRead, Meant, SettingsReachClient, Away
<1> QED BY <1>1, <1>2, <1>3, <1>4 DEF AppInv

LEMMA AppStep == AppInv /\ [Next]_vars => AppInv'
  BY FlagsStep, TypeStep, StrayStep, OwnershipStep, SettingsInvStep DEF AppInv, Ownership

LEMMA AppAlways == Spec => []AppInv
  BY AppInit, AppStep, PTL DEF Spec

\* However presses, auto-connect, disconnecting and the end of the program follow
\* each other, a connected client is the installed one or in the hands of who
\* installs or closes it, and an open remote window is a.remote (app.go).
THEOREM NoClientIsLost == Spec => []NothingStray
<1>1. AppInv => NothingStray
  BY DEF AppInv
<1> QED BY <1>1, AppAlways, PTL

\* The flags requesting, webShareBusy, settingsSaving and updateChecking are up
\* exactly while one goroutine is there that takes them down (app.go).
THEOREM JobsTakeTheirFlags == Spec => []FlagsMeanJobs
<1>1. AppInv => FlagsMeanJobs
  BY DEF AppInv
<1> QED BY <1>1, AppAlways, PTL

\* When saveSettings and connect did not overlap, the installed client has the
\* settings that were saved last once UpdateOptions has returned (app.go).
THEOREM SavedSettingsApply == Spec => []SettingsReachClient
<1>1. AppInv => SettingsReachClient
  BY DEF AppInv, SettingsInv
<1> QED BY <1>1, AppAlways, PTL
=============================================================================
