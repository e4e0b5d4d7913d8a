---------------------------- MODULE Relay_proofs ----------------------------
(***************************************************************************)
(* The relay, for every value of the constants.  First types and the       *)
(* places of the goroutines, section by section; that s.clients holds each *)
(* connection under the id it registered with; and that it never holds     *)
(* more than max_clients devices.  Then sessions: they live between        *)
(* registered parties; what a handler holds between two sections still     *)
(* means what it did; codes, visitors and announcements; and that the      *)
(* relay implements SessionAuthority.                                      *)
(***************************************************************************)
EXTENDS RelayInvariant, FiniteSetTheorems, TLAPS

USE ConstantsAssumption, EnvironmentAssumption

-----------------------------------------------------------------------------
(* Types and places.                                                       *)

PCs == ConnPCs \cup WebPCs

LEMMA ActorsOf ==
  /\ Conns \subseteq Actors /\ Peers \subseteq Actors
  /\ Devices \subseteq Parties /\ Peers \subseteq Parties
  /\ \A c \in Conns : c \notin Peers
  BY DEF Actors, Parties

LEMMA NoArgType == NoArg \in Arg
  BY DEF NoArg, Arg, Modes, AllKinds, Parties, Actors

\* Replacing one field keeps a handler's locals well typed.
LEMMA ArgUpdate ==
  ASSUME NEW a \in Arg
  PROVE  /\ \A v \in Parties \cup {None} : [a EXCEPT !.to = v] \in Arg
         /\ \A v \in Actors \cup {None} : [a EXCEPT !.conn = v] \in Arg
         /\ \A v \in Modes, i \in BOOLEAN : [a EXCEPT !.mode = v, !.input = i] \in Arg
         /\ \A v \in SessionIds \cup {None} : [a EXCEPT !.sid = v] \in Arg
         /\ \A v \in Codes \cup {None} : [a EXCEPT !.code = v] \in Arg
  BY DEF Arg

LEMMA NormalizeType == \A mode \in WireModes : NormalizeSessionMode(mode) \in Modes
  BY DEF NormalizeSessionMode, WireModes, Modes

\* A handler's move: its place and locals stay typed.
LEMMA GotoType ==
  ASSUME ConnTypeOK, NEW x \in Actors, NEW l \in PCs, NEW a \in Arg, GotoWith(x, l, a)
  PROVE  /\ pc' = [pc EXCEPT ![x] = l] /\ arg' = [arg EXCEPT ![x] = a]
         /\ pc' \in [Actors -> PCs] /\ arg' \in [Actors -> Arg]
  BY DEF ConnTypeOK, GotoWith, PCs

\* Notifications change nothing but beliefs.
LEMMA NotifyType ==
  ASSUME HubTypeOK, NEW S \in SUBSET SessionIds, NEW cl, NEW wp,
         NotifySessionClosed(S, cl, wp)
  PROVE  told' \in [Actors -> [SessionIds -> Beliefs]]
  <1>1. PICK lost \in IF QueueMayFill THEN SUBSET (Actors \X S) ELSE {{}} :
          told' = [x \in Actors |-> [s \in SessionIds |->
               IF s \in S /\ x \in Recipients(s, cl, wp) \ Deaf /\ <<x, s>> \notin lost
               THEN "closed" ELSE told[x][s]]]
    BY Zenon DEF NotifySessionClosed
  <1>2. \A x \in Actors : \A s \in SessionIds : told[x][s] \in Beliefs
    BY DEF HubTypeOK, Beliefs
  <1>3. \A x \in Actors : [s \in SessionIds |->
               IF s \in S /\ x \in Recipients(s, cl, wp) \ Deaf /\ <<x, s>> \notin lost
               THEN "closed" ELSE told[x][s]] \in [SessionIds -> Beliefs]
    BY <1>2 DEF Beliefs
  <1> QED BY <1>1, <1>3

LEMMA GotoLocals ==
  ASSUME ConnTypeOK, Locals, NEW x \in Actors, NEW l \in PCs, NEW a \in Arg,
         GotoWith(x, l, a),
         l = "confirm" => a.to \in Parties, l = "route" => a.sid \in SessionIds
  PROVE  Locals'
  BY GotoType DEF Locals, ConnTypeOK

LEMMA ForgetType ==
  ASSUME HubTypeOK, NEW x, NEW cl \in [Devices -> Conns \cup {None}],
         NEW wp \in SUBSET Peers, ForgetParty(x, cl, wp), share' \in [Tokens -> WebShare]
  PROVE  HubTypeOK'
  <1>1. SessionsOf(x) \in SUBSET SessionIds
    BY DEF SessionsOf, HubTypeOK
  <1>2. told' \in [Actors -> [SessionIds -> Beliefs]]
    BY <1>1, NotifyType DEF ForgetParty
  <1>3. pending' \in [Parties \X Devices -> Modes \cup {None}]
    BY DEF ForgetParty, HubTypeOK
  <1> QED BY <1>1, <1>2, <1>3 DEF ForgetParty, HubTypeOK

LEMMA TellReadyType ==
  ASSUME HubTypeOK, NEW x, NEW s, TellReady(x, s)
  PROVE  told' \in [Actors -> [SessionIds -> Beliefs]]
  <1>1. CASE UNCHANGED told
    BY <1>1 DEF HubTypeOK
  <1>2. CASE ~UNCHANGED told
    <2>1. told' = [told EXCEPT ![x][s] = "ready"] /\ "ready" \in Beliefs
      BY <1>2 DEF TellReady, Beliefs
    <2> QED BY <2>1 DEF HubTypeOK
  <1> QED BY <1>1, <1>2

LEMMA CloseSessionType ==
  ASSUME HubTypeOK, NEW s \in SessionIds, CloseSession(s)
  PROVE  HubTypeOK'
  <1>1. told' \in [Actors -> [SessionIds -> Beliefs]]
    BY NotifyType DEF CloseSession, HubTypeOK
  <1> QED BY <1>1 DEF CloseSession, HubTypeOK

-----------------------------------------------------------------------------
(* Actions of one section that touch the connection only.                  *)

LEMMA EvictCloseType ==
  ASSUME Typed, NEW c \in Conns, EvictClose(c), UNCHANGED shareOf
  PROVE  Typed'
  <1>1. \A o \in Conns : connState'[o] \in {connState[o], "closing"}
    BY DEF EvictClose, Closing, Typed, TypeOK, ConnTypeOK
  <1>2. connState' \in [Conns -> {"open", "quiet", "closing", "closed"}]
    BY <1>1 DEF EvictClose, Closing, Typed, TypeOK, ConnTypeOK
  <1>3. UNCHANGED <<hubVars, devId, authCode, codeExpired, stale, asked, pc, arg, shareOf>>
    BY DEF EvictClose, Keep, AuthSame
  <1>4. TypeOK'
    BY <1>2, <1>3 DEF Typed, TypeOK, HubTypeOK, ConnTypeOK, WebTypeOK, hubVars
  <1>5. Places'
    BY <1>1, <1>3 DEF Typed, Places
  <1>6. Locals' /\ Links'
    BY <1>3 DEF Typed, Locals, Links, hubVars
  <1> QED
    BY <1>4, <1>5, <1>6 DEF Typed

LEMMA RegisterBeginType ==
  ASSUME Typed, NEW c \in Conns,
         RegisterBegin(c), UNCHANGED shareOf
  PROVE  Typed'
  BY NoArgType, ActorsOf DEF RegisterBegin, GotoWith, Goto, Return, Keep, AuthSame, Read, Closing,
     Typed, TypeOK, HubTypeOK, ConnTypeOK, WebTypeOK, Places, Locals, Links,
     ConnPCs, WebPCs, hubVars

LEMMA RegisterRefusedType ==
  ASSUME Typed, NEW c \in Conns,
         RegisterRefused(c), UNCHANGED shareOf
  PROVE  Typed'
  BY NoArgType, ActorsOf DEF RegisterRefused, GotoWith, Goto, Return, Keep, AuthSame, Read, Closing,
     Typed, TypeOK, HubTypeOK, ConnTypeOK, WebTypeOK, Places, Locals, Links,
     ConnPCs, WebPCs, hubVars

LEMMA EvictReturnType ==
  ASSUME Typed, NEW c \in Conns,
         EvictReturn(c), UNCHANGED shareOf
  PROVE  Typed'
  BY NoArgType, ActorsOf DEF EvictReturn, GotoWith, Goto, Return, Keep, AuthSame, Read, Closing,
     Typed, TypeOK, HubTypeOK, ConnTypeOK, WebTypeOK, Places, Locals, Links,
     ConnPCs, WebPCs, hubVars

LEMMA AuthCodePublishType ==
  ASSUME Typed, NEW c \in Conns, NEW code \in Codes,
         AuthCodePublish(c, code), UNCHANGED shareOf
  PROVE  Typed'
  BY NoArgType, ActorsOf DEF AuthCodePublish, GotoWith, Goto, Return, Keep, AuthSame, Read, Closing,
     Typed, TypeOK, HubTypeOK, ConnTypeOK, WebTypeOK, Places, Locals, Links,
     ConnPCs, WebPCs, hubVars

LEMMA CodeExpiresType ==
  ASSUME Typed, NEW c \in Conns,
         CodeExpires(c), UNCHANGED shareOf
  PROVE  Typed'
  BY NoArgType, ActorsOf DEF CodeExpires, GotoWith, Goto, Return, Keep, AuthSame, Read, Closing,
     Typed, TypeOK, HubTypeOK, ConnTypeOK, WebTypeOK, Places, Locals, Links,
     ConnPCs, WebPCs, hubVars

LEMMA ReadErrorType ==
  ASSUME Typed, NEW c \in Conns,
         ReadError(c), UNCHANGED shareOf
  PROVE  Typed'
  BY NoArgType, ActorsOf DEF ReadError, GotoWith, Goto, Return, Keep, AuthSame, Read, Closing,
     Typed, TypeOK, HubTypeOK, ConnTypeOK, WebTypeOK, Places, Locals, Links,
     ConnPCs, WebPCs, hubVars

LEMMA WriteErrorType ==
  ASSUME Typed, NEW c \in Conns,
         WriteError(c), UNCHANGED shareOf
  PROVE  Typed'
  BY NoArgType, ActorsOf DEF WriteError, GotoWith, Goto, Return, Keep, AuthSame, Read, Closing,
     Typed, TypeOK, HubTypeOK, ConnTypeOK, WebTypeOK, Places, Locals, Links,
     ConnPCs, WebPCs, hubVars

LEMMA GoQuietType ==
  ASSUME Typed, NEW c \in Conns,
         GoQuiet(c), UNCHANGED shareOf
  PROVE  Typed'
  BY NoArgType, ActorsOf DEF GoQuiet, GotoWith, Goto, Return, Keep, AuthSame, Read, Closing,
     Typed, TypeOK, HubTypeOK, ConnTypeOK, WebTypeOK, Places, Locals, Links,
     ConnPCs, WebPCs, hubVars

LEMMA ReaperCloseType ==
  ASSUME Typed, NEW c \in Conns,
         ReaperClose(c), UNCHANGED shareOf
  PROVE  Typed'
  BY NoArgType, ActorsOf DEF ReaperClose, GotoWith, Goto, Return, Keep, AuthSame, Read, Closing,
     Typed, TypeOK, HubTypeOK, ConnTypeOK, WebTypeOK, Places, Locals, Links,
     ConnPCs, WebPCs, hubVars

LEMMA ReaperScanType ==
  ASSUME Typed, TRUE,
         ReaperScan, UNCHANGED shareOf
  PROVE  Typed'
  BY DEF ReaperScan, Keep, AuthSame, Typed, TypeOK, HubTypeOK, ConnTypeOK, WebTypeOK,
     Places, Locals, Links, hubVars

-----------------------------------------------------------------------------
(* Handlers of native connections.                                         *)

LEMMA RegisterInsertType ==
  ASSUME Typed, NEW c \in Conns,
         RegisterInsert(c), UNCHANGED shareOf
  PROVE  Typed'
  <1> DEFINE a == [NoArg EXCEPT !.conn = clients[devId[c]]]
  <1> USE DEF Typed
  <1>1. devId[c] \in Devices /\ clients[devId[c]] \in Conns \cup {None}
    BY DEF RegisterInsert, Places, TypeOK, HubTypeOK
  <1>2. a \in Arg
    BY <1>1, NoArgType, ArgUpdate, ActorsOf
  <1>3. GotoWith(c, "idle", NoArg) \/ GotoWith(c, "evict", a)
    BY DEF RegisterInsert, Keep, Return, Goto, GotoWith
  <1> HIDE DEF a
  <1>4. /\ pc' \in [Actors -> PCs] /\ arg' \in [Actors -> Arg]
        /\ (pc' = [pc EXCEPT ![c] = "idle"] \/ pc' = [pc EXCEPT ![c] = "evict"])
    BY <1>1, <1>2, <1>3, GotoType, NoArgType, ActorsOf DEF TypeOK, ConnTypeOK, PCs, ConnPCs, WebPCs
  <1>5. HubTypeOK'
    BY <1>1 DEF RegisterInsert, Insert, HubTypeOK, TypeOK
  <1>6. UNCHANGED connOnly
    BY DEF RegisterInsert, AuthSame, connOnly
  <1>7. ConnTypeOK'
    BY <1>4, <1>6 DEF connOnly, ConnTypeOK, TypeOK, PCs
  <1>8. Places'
    BY <1>4, <1>6, ActorsOf DEF RegisterInsert, Read, connOnly, ConnTypeOK, WebTypeOK, TypeOK, Places, ConnPCs, WebPCs
  <1>9. Locals'
    BY <1>1, <1>2, <1>3, GotoLocals, NoArgType, ActorsOf DEF Locals, TypeOK, ConnTypeOK, PCs, ConnPCs, WebPCs
  <1>10. Links'
    BY DEF RegisterInsert, Links, hubVars, Insert
  <1> QED
    BY <1>5, <1>7, <1>8, <1>9, <1>10 DEF TypeOK, WebTypeOK

LEMMA SessionRequestType ==
  ASSUME Typed, NEW c \in Conns, NEW d \in Devices, NEW mode \in WireModes,
         NEW code \in Codes \cup {None},
         SessionRequest(c, d, mode, code), UNCHANGED shareOf
  PROVE  Typed'
  <1> DEFINE a == [NoArg EXCEPT !.to = d, !.conn = clients[d],
                                  !.mode = NormalizeSessionMode(mode), !.code = code]
  <1> USE DEF Typed
  <1>1. a \in Arg
    BY ActorsOf, NormalizeType DEF NoArg, Arg, AllKinds, TypeOK, HubTypeOK
  <1>2. UNCHANGED <<pc, arg>> \/ GotoWith(c, "auth", a)
    BY DEF SessionRequest, Keep, Return, Goto, GotoWith
  <1> HIDE DEF a
  <1>3. /\ pc' \in [Actors -> PCs] /\ arg' \in [Actors -> Arg]
        /\ (pc' = pc \/ pc' = [pc EXCEPT ![c] = "auth"])
    BY <1>1, <1>2, GotoType, NoArgType, ActorsOf DEF TypeOK, ConnTypeOK, PCs, ConnPCs, WebPCs
  <1>4. HubTypeOK'
    BY DEF SessionRequest, hubVars, HubTypeOK, TypeOK
  <1>5. connState' = [connState EXCEPT ![c] = IF @ = "quiet" THEN "open" ELSE @]
        /\ UNCHANGED <<devId, authCode, codeExpired, stale, asked>>
    BY DEF SessionRequest, Read, AuthSame
  <1>6. ConnTypeOK'
    BY <1>3, <1>5 DEF connOnly, ConnTypeOK, TypeOK, PCs
  <1>7. Places'
    BY <1>3, <1>5, ActorsOf DEF SessionRequest, Read, connOnly, ConnTypeOK, WebTypeOK, TypeOK, Places, ConnPCs, WebPCs
  <1>8. Locals'
    BY <1>1, <1>2, GotoLocals, NoArgType, ActorsOf DEF Locals, TypeOK, ConnTypeOK, PCs, ConnPCs, WebPCs
  <1>9. Links'
    BY DEF SessionRequest, Links, hubVars
  <1> QED
    BY <1>4, <1>6, <1>7, <1>8, <1>9 DEF TypeOK, WebTypeOK

LEMMA RequestAuthType ==
  ASSUME Typed, NEW c \in Conns,
         RequestAuth(c), UNCHANGED shareOf
  PROVE  Typed'
  <1> DEFINE a == [arg[c] EXCEPT !.code = None]
  <1> USE DEF Typed
  <1>1. arg[c] \in Arg /\ a \in Arg
    BY ActorsOf, ArgUpdate DEF TypeOK, ConnTypeOK
  <1>2. \/ GotoWith(c, "store", a) \/ GotoWith(c, "idle", NoArg)
        \/ pc' = [pc EXCEPT ![c] = "store"] /\ arg' = arg
    BY DEF RequestAuth, Keep, Return, Goto
  <1> HIDE DEF a
  <1>3. /\ pc' \in [Actors -> PCs] /\ arg' \in [Actors -> Arg]
        /\ (pc' = [pc EXCEPT ![c] = "store"] \/ pc' = [pc EXCEPT ![c] = "idle"])
    BY <1>1, <1>2, GotoType, NoArgType, ActorsOf DEF TypeOK, ConnTypeOK, PCs, ConnPCs, WebPCs
  <1>4. HubTypeOK'
    BY DEF RequestAuth, hubVars, HubTypeOK, TypeOK
  <1>5. /\ UNCHANGED <<connState, devId, stale, asked>>
        /\ authCode' \in [Conns -> Codes \cup {None}] /\ codeExpired' \in [Conns -> BOOLEAN]
    BY DEF RequestAuth, TypeOK, ConnTypeOK
  <1>6. ConnTypeOK'
    BY <1>3, <1>5 DEF connOnly, ConnTypeOK, TypeOK, PCs
  <1>7. Places'
    BY <1>3, <1>5, ActorsOf DEF RequestAuth, Read, connOnly, ConnTypeOK, WebTypeOK, TypeOK, Places, ConnPCs, WebPCs
  <1>8. Locals'
    BY <1>1, <1>2, GotoLocals, NoArgType, ActorsOf DEF Locals, TypeOK, ConnTypeOK, PCs, ConnPCs, WebPCs
  <1>9. Links'
    BY DEF RequestAuth, Links, hubVars
  <1> QED
    BY <1>4, <1>6, <1>7, <1>8, <1>9 DEF TypeOK, WebTypeOK

LEMMA SessionConfirmType ==
  ASSUME Typed, NEW c \in Conns, NEW ctl \in Parties, NEW accepted \in BOOLEAN,
         NEW mode \in WireModes, NEW input \in BOOLEAN,
         SessionConfirm(c, ctl, accepted, mode, input), UNCHANGED shareOf
  PROVE  Typed'
  <1> DEFINE a == [NoArg EXCEPT !.to = ctl, !.ok = accepted,
                                  !.mode = NormalizeSessionMode(mode), !.input = input]
  <1> USE DEF Typed
  <1>1. a \in Arg /\ a.to \in Parties
    BY ActorsOf, NormalizeType DEF NoArg, Arg, AllKinds
  <1>2. UNCHANGED <<pc, arg>> \/ GotoWith(c, "confirm", a)
    BY DEF SessionConfirm, Keep, Return, Goto, GotoWith
  <1> HIDE DEF a
  <1>3. /\ pc' \in [Actors -> PCs] /\ arg' \in [Actors -> Arg]
        /\ (pc' = pc \/ pc' = [pc EXCEPT ![c] = "confirm"])
    BY <1>1, <1>2, GotoType, NoArgType, ActorsOf DEF TypeOK, ConnTypeOK, PCs, ConnPCs, WebPCs
  <1>4. HubTypeOK'
    BY DEF SessionConfirm, hubVars, HubTypeOK, TypeOK
  <1>5. connState' = [connState EXCEPT ![c] = IF @ = "quiet" THEN "open" ELSE @]
        /\ UNCHANGED <<devId, authCode, codeExpired, stale, asked>>
    BY DEF SessionConfirm, Read, AuthSame
  <1>6. ConnTypeOK'
    BY <1>3, <1>5 DEF connOnly, ConnTypeOK, TypeOK, PCs
  <1>7. Places'
    BY <1>3, <1>5, ActorsOf DEF SessionConfirm, Read, connOnly, ConnTypeOK, WebTypeOK, TypeOK, Places, ConnPCs, WebPCs
  <1>8. Locals'
    BY <1>1, <1>2, GotoLocals, NoArgType, ActorsOf DEF Locals, TypeOK, ConnTypeOK, PCs, ConnPCs, WebPCs
  <1>9. Links'
    BY DEF SessionConfirm, Links, hubVars
  <1> QED
    BY <1>4, <1>6, <1>7, <1>8, <1>9 DEF TypeOK, WebTypeOK

LEMMA ConfirmConsumeType ==
  ASSUME Typed, NEW c \in Conns,
         ConfirmConsume(c), UNCHANGED shareOf
  PROVE  Typed'
  <1> DEFINE request == pending[<<arg[c].to, devId[c]>>]
  <1> DEFINE mode == IF request # None THEN request ELSE arg[c].mode
  <1> DEFINE a == [arg[c] EXCEPT !.mode = mode,
                                  !.input = arg[c].input /\ SessionModeAllowsInput(mode)]
  <1> USE DEF Typed
  <1>1. arg[c] \in Arg /\ arg[c].mode \in Modes /\ devId[c] \in Devices
    BY ActorsOf DEF ConfirmConsume, TypeOK, ConnTypeOK, Places, Arg
  <1>2. pending \in [Parties \X Devices -> Modes \cup {None}]
    BY DEF TypeOK, HubTypeOK
  <1>3. arg[c].to \in Parties
    BY ActorsOf DEF ConfirmConsume, Locals
  <1>4. mode \in Modes
    BY <1>1, <1>2, <1>3
  <1>5. a \in Arg
    BY <1>1, <1>4, ArgUpdate
  <1>6. GotoWith(c, "create", a) \/ GotoWith(c, "idle", NoArg)
    BY DEF ConfirmConsume, Keep, Return, Goto, GotoWith
  <1> HIDE DEF request, mode, a
  <1>7. /\ pc' \in [Actors -> PCs] /\ arg' \in [Actors -> Arg]
        /\ (pc' = [pc EXCEPT ![c] = "create"] \/ pc' = [pc EXCEPT ![c] = "idle"])
    BY <1>1, <1>2, <1>3, <1>4, <1>5, <1>6, GotoType, NoArgType, ActorsOf DEF TypeOK, ConnTypeOK, PCs, ConnPCs, WebPCs
  <1>8. HubTypeOK'
    BY DEF ConfirmConsume, ConsumePendingRequest, HubTypeOK, TypeOK
  <1>9. UNCHANGED connOnly
    BY DEF ConfirmConsume, AuthSame, connOnly
  <1>10. ConnTypeOK'
    BY <1>7, <1>9 DEF connOnly, ConnTypeOK, TypeOK, PCs
  <1>11. Places'
    BY <1>7, <1>9, ActorsOf DEF ConfirmConsume, Read, connOnly, ConnTypeOK, WebTypeOK, TypeOK, Places, ConnPCs, WebPCs
  <1>12. Locals'
    BY <1>1, <1>2, <1>3, <1>4, <1>5, <1>6, GotoLocals, NoArgType, ActorsOf DEF Locals, TypeOK, ConnTypeOK, PCs, ConnPCs, WebPCs
  <1>13. Links'
    BY DEF ConfirmConsume, Links, hubVars, ConsumePendingRequest
  <1> QED
    BY <1>8, <1>10, <1>11, <1>12, <1>13 DEF TypeOK, WebTypeOK

LEMMA ConfirmCreateType ==
  ASSUME Typed, NEW c \in Conns, NEW s \in SessionIds,
         ConfirmCreate(c, s), UNCHANGED shareOf
  PROVE  Typed'
  <1> DEFINE a == [arg[c] EXCEPT !.sid = s]
  <1> DEFINE t == [ctl |-> arg[c].to, dev |-> devId[c], mode |-> NormalizeSessionMode(arg[c].mode),
                input |-> arg[c].input /\ SessionModeAllowsInput(arg[c].mode)]
  <1> USE DEF Typed
  <1>1. arg[c] \in Arg /\ devId[c] \in Devices
    BY ActorsOf DEF ConfirmCreate, TypeOK, ConnTypeOK, Places
  <1>2. a \in Arg
    BY <1>1, ArgUpdate
  <1>3. t \in Session
    BY <1>1, ActorsOf DEF Arg, Session, Modes, NormalizeSessionMode, SessionModeAllowsInput
  <1>4. \/ UNCHANGED hubVars
        \/ sess' = [sess EXCEPT ![s] = t] /\ live' = live \cup {s}
           /\ UNCHANGED <<clients, webPeers, pending, share, told>>
    BY Zenon DEF ConfirmCreate, CreateSession
  <1>5. GotoWith(c, "readyCtl", a) \/ GotoWith(c, "idle", NoArg)
    BY DEF ConfirmCreate, Keep, Return, Goto
  <1> HIDE DEF a, t
  <1>6. /\ pc' \in [Actors -> PCs] /\ arg' \in [Actors -> Arg]
        /\ (pc' = [pc EXCEPT ![c] = "readyCtl"] \/ pc' = [pc EXCEPT ![c] = "idle"])
    BY <1>1, <1>2, <1>3, <1>4, <1>5, GotoType, NoArgType, ActorsOf DEF TypeOK, ConnTypeOK, PCs, ConnPCs, WebPCs
  <1>7. HubTypeOK'
    BY <1>3, <1>4 DEF hubVars, HubTypeOK, TypeOK
  <1>8. UNCHANGED connOnly
    BY DEF ConfirmCreate, AuthSame, connOnly
  <1>9. ConnTypeOK'
    BY <1>6, <1>8 DEF connOnly, ConnTypeOK, TypeOK, PCs
  <1>10. Places'
    BY <1>6, <1>8, ActorsOf DEF ConfirmCreate, Read, connOnly, ConnTypeOK, WebTypeOK, TypeOK, Places, ConnPCs, WebPCs
  <1>11. Locals'
    BY <1>1, <1>2, <1>3, <1>4, <1>5, GotoLocals, NoArgType, ActorsOf DEF Locals, TypeOK, ConnTypeOK, PCs, ConnPCs, WebPCs
  <1>12. Links'
    BY <1>4 DEF Links, hubVars
  <1> QED
    BY <1>7, <1>9, <1>10, <1>11, <1>12 DEF TypeOK, WebTypeOK

LEMMA ReadyToControllerType ==
  ASSUME Typed, NEW c \in Conns,
         ReadyToController(c), UNCHANGED shareOf
  PROVE  Typed'
  <1> USE DEF Typed
  <1>1. told' \in [Actors -> [SessionIds -> Beliefs]]
    BY TellReadyType DEF ReadyToController, TypeOK, HubTypeOK
  <1>2. pc' = [pc EXCEPT ![c] = "readyDev"] /\ arg' = arg
    BY DEF ReadyToController, Keep, Return, Goto, GotoWith
  <1>3. /\ pc' \in [Actors -> PCs] /\ arg' \in [Actors -> Arg]
        /\ pc' = [pc EXCEPT ![c] = "readyDev"]
    BY <1>1, <1>2, GotoType, NoArgType, ActorsOf DEF TypeOK, ConnTypeOK, PCs, ConnPCs, WebPCs
  <1>4. HubTypeOK'
    BY <1>1 DEF ReadyToController, HubTypeOK, TypeOK
  <1>5. UNCHANGED connOnly
    BY DEF ReadyToController, AuthSame, connOnly
  <1>6. ConnTypeOK'
    BY <1>3, <1>5 DEF connOnly, ConnTypeOK, TypeOK, PCs
  <1>7. Places'
    BY <1>3, <1>5, ActorsOf DEF ReadyToController, Read, connOnly, ConnTypeOK, WebTypeOK, TypeOK, Places, ConnPCs, WebPCs
  <1>8. Locals'
    BY <1>1, <1>2, GotoLocals, NoArgType, ActorsOf DEF Locals, TypeOK, ConnTypeOK, PCs, ConnPCs, WebPCs
  <1>9. Links'
    BY DEF ReadyToController, Links, hubVars
  <1> QED
    BY <1>4, <1>6, <1>7, <1>8, <1>9 DEF TypeOK, WebTypeOK

LEMMA ReadyToControlledType ==
  ASSUME Typed, NEW c \in Conns,
         ReadyToControlled(c), UNCHANGED shareOf
  PROVE  Typed'
  <1> USE DEF Typed
  <1>1. told' \in [Actors -> [SessionIds -> Beliefs]]
    BY TellReadyType DEF ReadyToControlled, TypeOK, HubTypeOK
  <1>2. GotoWith(c, "idle", NoArg)
    BY DEF ReadyToControlled, Keep, Return, Goto, GotoWith
  <1>3. /\ pc' \in [Actors -> PCs] /\ arg' \in [Actors -> Arg]
        /\ pc' = [pc EXCEPT ![c] = "idle"]
    BY <1>1, <1>2, GotoType, NoArgType, ActorsOf DEF TypeOK, ConnTypeOK, PCs, ConnPCs, WebPCs
  <1>4. HubTypeOK'
    BY <1>1 DEF ReadyToControlled, HubTypeOK, TypeOK
  <1>5. UNCHANGED connOnly
    BY DEF ReadyToControlled, AuthSame, connOnly
  <1>6. ConnTypeOK'
    BY <1>3, <1>5 DEF connOnly, ConnTypeOK, TypeOK, PCs
  <1>7. Places'
    BY <1>3, <1>5, ActorsOf DEF ReadyToControlled, Read, connOnly, ConnTypeOK, WebTypeOK, TypeOK, Places, ConnPCs, WebPCs
  <1>8. Locals'
    BY <1>1, <1>2, GotoLocals, NoArgType, ActorsOf DEF Locals, TypeOK, ConnTypeOK, PCs, ConnPCs, WebPCs
  <1>9. Links'
    BY DEF ReadyToControlled, Links, hubVars
  <1> QED
    BY <1>4, <1>6, <1>7, <1>8, <1>9 DEF TypeOK, WebTypeOK

LEMMA SessionCloseType ==
  ASSUME Typed, NEW c \in Conns, NEW s \in SessionIds,
         SessionClose(c, s), UNCHANGED shareOf
  PROVE  Typed'
  <1> USE DEF Typed
  <1>1. UNCHANGED <<pc, arg>>
    BY DEF SessionClose, Keep, Return, Goto, GotoWith
  <1>2. /\ pc' \in [Actors -> PCs] /\ arg' \in [Actors -> Arg]
        /\ pc' = pc
    BY <1>1, GotoType, NoArgType, ActorsOf DEF TypeOK, ConnTypeOK, PCs, ConnPCs, WebPCs
  <1>3. HubTypeOK'
    BY CloseSessionType DEF SessionClose, TypeOK
  <1>4. connState' = [connState EXCEPT ![c] = IF @ = "quiet" THEN "open" ELSE @]
        /\ UNCHANGED <<devId, authCode, codeExpired, stale, asked>>
    BY DEF SessionClose, Read, AuthSame
  <1>5. ConnTypeOK'
    BY <1>2, <1>4 DEF connOnly, ConnTypeOK, TypeOK, PCs
  <1>6. Places'
    BY <1>2, <1>4, ActorsOf DEF SessionClose, Read, connOnly, ConnTypeOK, WebTypeOK, TypeOK, Places, ConnPCs, WebPCs
  <1>7. Locals'
    BY <1>1, GotoLocals, NoArgType, ActorsOf DEF Locals, TypeOK, ConnTypeOK, PCs, ConnPCs, WebPCs
  <1>8. Links'
    BY DEF SessionClose, Links, hubVars, CloseSession
  <1> QED
    BY <1>3, <1>5, <1>6, <1>7, <1>8 DEF TypeOK, WebTypeOK

LEMMA ForwardType ==
  ASSUME Typed, NEW c \in Conns, NEW kind \in AllKinds, NEW s \in SessionIds,
         Forward(c, kind, s), UNCHANGED shareOf
  PROVE  Typed'
  <1> DEFINE a == [NoArg EXCEPT !.kind = kind, !.sid = s]
  <1> USE DEF Typed
  <1>1. a \in Arg /\ a.sid \in SessionIds
    BY ActorsOf DEF NoArg, Arg, Modes, AllKinds
  <1>2. UNCHANGED <<pc, arg>> \/ GotoWith(c, "route", a)
    BY DEF Forward, Keep, Return, Goto, GotoWith
  <1> HIDE DEF a
  <1>3. /\ pc' \in [Actors -> PCs] /\ arg' \in [Actors -> Arg]
        /\ (pc' = pc \/ pc' = [pc EXCEPT ![c] = "route"])
    BY <1>1, <1>2, GotoType, NoArgType, ActorsOf DEF TypeOK, ConnTypeOK, PCs, ConnPCs, WebPCs
  <1>4. HubTypeOK'
    BY DEF Forward, hubVars, HubTypeOK, TypeOK
  <1>5. connState' = [connState EXCEPT ![c] = IF @ = "quiet" THEN "open" ELSE @]
        /\ UNCHANGED <<devId, authCode, codeExpired, stale, asked>>
    BY DEF Forward, Read, AuthSame
  <1>6. ConnTypeOK'
    BY <1>3, <1>5 DEF connOnly, ConnTypeOK, TypeOK, PCs
  <1>7. Places'
    BY <1>3, <1>5, ActorsOf DEF Forward, Read, connOnly, ConnTypeOK, WebTypeOK, TypeOK, Places, ConnPCs, WebPCs
  <1>8. Locals'
    BY <1>1, <1>2, GotoLocals, NoArgType, ActorsOf DEF Locals, TypeOK, ConnTypeOK, PCs, ConnPCs, WebPCs
  <1>9. Links'
    BY DEF Forward, Links, hubVars
  <1> QED
    BY <1>4, <1>6, <1>7, <1>8, <1>9 DEF TypeOK, WebTypeOK

LEMMA ForwardRouteType ==
  ASSUME Typed, NEW c \in Conns,
         ForwardRoute(c), UNCHANGED shareOf
  PROVE  Typed'
  <1> DEFINE a(x) == [arg[c] EXCEPT !.to = x]
  <1> DEFINE s == arg[c].sid
  <1> USE DEF Typed
  <1>1. pc[c] = "route" /\ s \in SessionIds
    BY ActorsOf DEF ForwardRoute, Locals
  <1>2. arg[c] \in Arg /\ sess[s] \in Session
    BY <1>1, ActorsOf DEF TypeOK, ConnTypeOK, HubTypeOK
  <1>3. a(sess[s].dev) \in Arg /\ a(sess[s].ctl) \in Arg
    BY <1>2, ArgUpdate, ActorsOf DEF Session
  <1>4. \/ GotoWith(c, "target", a(sess[s].dev))
        \/ GotoWith(c, "target", a(sess[s].ctl))
        \/ GotoWith(c, "idle", NoArg)
    BY DEF ForwardRoute, Keep, Return, Goto, GotoWith
  <1> HIDE DEF a, s
  <1>5. /\ pc' \in [Actors -> PCs] /\ arg' \in [Actors -> Arg]
        /\ (pc' = [pc EXCEPT ![c] = "target"] \/ pc' = [pc EXCEPT ![c] = "idle"])
    BY <1>1, <1>2, <1>3, <1>4, GotoType, NoArgType, ActorsOf DEF TypeOK, ConnTypeOK, PCs, ConnPCs, WebPCs
  <1>6. HubTypeOK'
    BY DEF ForwardRoute, hubVars, HubTypeOK, TypeOK
  <1>7. UNCHANGED connOnly
    BY DEF ForwardRoute, AuthSame, connOnly
  <1>8. ConnTypeOK'
    BY <1>5, <1>7 DEF connOnly, ConnTypeOK, TypeOK, PCs
  <1>9. Places'
    BY <1>5, <1>7, ActorsOf DEF ForwardRoute, Read, connOnly, ConnTypeOK, WebTypeOK, TypeOK, Places, ConnPCs, WebPCs
  <1>10. Locals'
    BY <1>1, <1>2, <1>3, <1>4, GotoLocals, NoArgType, ActorsOf DEF Locals, TypeOK, ConnTypeOK, PCs, ConnPCs, WebPCs
  <1>11. Links'
    BY DEF ForwardRoute, Links, hubVars
  <1> QED
    BY <1>6, <1>8, <1>9, <1>10, <1>11 DEF TypeOK, WebTypeOK

LEMMA CloseUnregisterType ==
  ASSUME Typed, NEW c \in Conns,
         CloseUnregister(c), UNCHANGED shareOf
  PROVE  Typed'
  <1> USE DEF Typed
  <1>1. connState' = [connState EXCEPT ![c] = "closed"]
        /\ UNCHANGED <<devId, authCode, codeExpired, stale, asked, pc, arg>>
    BY DEF CloseUnregister, AuthSame, Keep
  <1>2. ConnTypeOK'
    BY <1>1 DEF ConnTypeOK, TypeOK
  <1>3. Places' /\ Locals'
    BY <1>1 DEF Places, Locals
  <1>4. CASE UNCHANGED hubVars
    BY <1>2, <1>3, <1>4 DEF hubVars, TypeOK, HubTypeOK, WebTypeOK, Links
  <1>5. CASE devId[c] # None /\ Unregister(c, devId[c])
    <2>1. devId[c] \in Devices
      BY <1>5 DEF TypeOK, ConnTypeOK
    <2>2. share' \in [Tokens -> WebShare]
      BY <1>5 DEF Unregister, TypeOK, HubTypeOK, WebShare
    <2>3. \A t \in Tokens : /\ share'[t].dev = share[t].dev
                            /\ share'[t].st = "unused" <=> share[t].st = "unused"
      BY <1>5 DEF Unregister, TypeOK, HubTypeOK, WebShare
    <2>4. [clients EXCEPT ![devId[c]] = IF @ = c THEN None ELSE @] \in [Devices -> Conns \cup {None}]
      BY DEF TypeOK, HubTypeOK
    <2>5. HubTypeOK'
      BY <1>5, <2>1, <2>2, <2>4, ForgetType DEF Unregister, TypeOK, HubTypeOK
    <2>6. Links'
      BY <2>3 DEF Links, TypeOK, WebTypeOK
    <2> QED BY <1>2, <1>3, <2>5, <2>6 DEF TypeOK, WebTypeOK
  <1> QED BY <1>4, <1>5 DEF CloseUnregister

-----------------------------------------------------------------------------
(* Sections that connections and visitors share.                           *)

LEMMA RequestStoreType ==
  ASSUME Typed, NEW x \in Actors,
         RequestStore(x), UNCHANGED shareOf
  PROVE  Typed'
  <1> USE DEF Typed
  <1>1. arg[x] \in Arg
    BY DEF TypeOK, ConnTypeOK
  <1>2. NormalizeSessionMode(arg[x].mode) \in Modes
    BY <1>1, NormalizeType DEF Arg, WireModes
  <1>3. pc' = [pc EXCEPT ![x] = "send"] /\ arg' = arg
    BY DEF RequestStore, Keep, Return, Goto, GotoWith
  <1>4. /\ pc' \in [Actors -> PCs] /\ arg' \in [Actors -> Arg]
        /\ pc' = [pc EXCEPT ![x] = "send"]
    BY <1>1, <1>2, <1>3, GotoType, NoArgType, ActorsOf DEF TypeOK, ConnTypeOK, PCs, ConnPCs, WebPCs
  <1>5. HubTypeOK'
    BY <1>2 DEF RequestStore, StorePendingRequest, HubTypeOK, TypeOK
  <1>6. UNCHANGED connOnly
    BY DEF RequestStore, AuthSame, connOnly
  <1>7. ConnTypeOK'
    BY <1>4, <1>6 DEF connOnly, ConnTypeOK, TypeOK, PCs
  <1>8. Places'
    BY <1>4, <1>6, ActorsOf DEF RequestStore, Read, connOnly, ConnTypeOK, WebTypeOK, TypeOK, Places, ConnPCs, WebPCs
  <1>9. Locals'
    BY <1>1, <1>2, <1>3, GotoLocals, NoArgType, ActorsOf DEF Locals, TypeOK, ConnTypeOK, PCs, ConnPCs, WebPCs
  <1>10. Links'
    BY DEF RequestStore, Links, hubVars, StorePendingRequest
  <1> QED
    BY <1>5, <1>7, <1>8, <1>9, <1>10 DEF TypeOK, WebTypeOK

LEMMA RequestSentType ==
  ASSUME Typed, NEW x \in Actors, NEW after \in {"idle", "leaving"}, x \in Conns => after = "idle",
         RequestSent(x, after), UNCHANGED shareOf
  PROVE  Typed'
  <1> USE DEF Typed
  <1>1. Self(x) \in Parties
    BY ActorsOf DEF Self, Places, RequestSent, Actors
  <1>2. asked' \in [Conns -> SUBSET Parties]
    BY <1>1 DEF RequestSent, TypeOK, ConnTypeOK
  <1>3. GotoWith(x, after, NoArg)
    BY DEF RequestSent, Keep, Return, Goto, GotoWith
  <1>4. /\ pc' \in [Actors -> PCs] /\ arg' \in [Actors -> Arg]
        /\ pc' = [pc EXCEPT ![x] = after]
    BY <1>1, <1>2, <1>3, GotoType, NoArgType, ActorsOf DEF TypeOK, ConnTypeOK, PCs, ConnPCs, WebPCs
  <1>5. HubTypeOK'
    BY DEF RequestSent, hubVars, HubTypeOK, TypeOK
  <1>6. UNCHANGED <<connState, devId, authCode, codeExpired, stale>>
    BY DEF RequestSent, AuthSame
  <1>7. ConnTypeOK'
    BY <1>2, <1>4, <1>6 DEF connOnly, ConnTypeOK, TypeOK, PCs
  <1>8. Places'
    BY <1>4, <1>6, ActorsOf DEF RequestSent, Read, connOnly, ConnTypeOK, WebTypeOK, TypeOK, Places, ConnPCs, WebPCs
  <1>9. Locals'
    BY <1>1, <1>2, <1>3, GotoLocals, NoArgType, ActorsOf DEF Locals, TypeOK, ConnTypeOK, PCs, ConnPCs, WebPCs
  <1>10. Links'
    BY DEF RequestSent, Links, hubVars
  <1> QED
    BY <1>5, <1>7, <1>8, <1>9, <1>10 DEF TypeOK, WebTypeOK

LEMMA RequestNotSentType ==
  ASSUME Typed, NEW x \in Actors, NEW after \in {"idle", "leaving"}, x \in Conns => after = "idle",
         RequestNotSent(x, after), UNCHANGED shareOf
  PROVE  Typed'
  <1> USE DEF Typed
  <1>1. GotoWith(x, after, NoArg)
    BY DEF RequestNotSent, Keep, Return, Goto, GotoWith
  <1>2. /\ pc' \in [Actors -> PCs] /\ arg' \in [Actors -> Arg]
        /\ pc' = [pc EXCEPT ![x] = after]
    BY <1>1, GotoType, NoArgType, ActorsOf DEF TypeOK, ConnTypeOK, PCs, ConnPCs, WebPCs
  <1>3. HubTypeOK'
    BY DEF RequestNotSent, hubVars, HubTypeOK, TypeOK
  <1>4. UNCHANGED connOnly
    BY DEF RequestNotSent, AuthSame, connOnly
  <1>5. ConnTypeOK'
    BY <1>2, <1>4 DEF connOnly, ConnTypeOK, TypeOK, PCs
  <1>6. Places'
    BY <1>2, <1>4, ActorsOf DEF RequestNotSent, Read, connOnly, ConnTypeOK, WebTypeOK, TypeOK, Places, ConnPCs, WebPCs
  <1>7. Locals'
    BY <1>1, GotoLocals, NoArgType, ActorsOf DEF Locals, TypeOK, ConnTypeOK, PCs, ConnPCs, WebPCs
  <1>8. Links'
    BY DEF RequestNotSent, Links, hubVars
  <1> QED
    BY <1>3, <1>5, <1>6, <1>7, <1>8 DEF TypeOK, WebTypeOK

LEMMA ForwardDeliverType ==
  ASSUME Typed, NEW x \in Actors, NEW after \in {"idle", "leaving"}, x \in Conns => after = "idle",
         ForwardDeliver(x, after), UNCHANGED shareOf
  PROVE  Typed'
  <1> USE DEF Typed
  <1>1. GotoWith(x, after, NoArg)
    BY DEF ForwardDeliver, Keep, Return, Goto, GotoWith
  <1>2. /\ pc' \in [Actors -> PCs] /\ arg' \in [Actors -> Arg]
        /\ pc' = [pc EXCEPT ![x] = after]
    BY <1>1, GotoType, NoArgType, ActorsOf DEF TypeOK, ConnTypeOK, PCs, ConnPCs, WebPCs
  <1>3. HubTypeOK'
    BY DEF ForwardDeliver, hubVars, HubTypeOK, TypeOK
  <1>4. UNCHANGED connOnly
    BY DEF ForwardDeliver, AuthSame, connOnly
  <1>5. ConnTypeOK'
    BY <1>2, <1>4 DEF connOnly, ConnTypeOK, TypeOK, PCs
  <1>6. Places'
    BY <1>2, <1>4, ActorsOf DEF ForwardDeliver, Read, connOnly, ConnTypeOK, WebTypeOK, TypeOK, Places, ConnPCs, WebPCs
  <1>7. Locals'
    BY <1>1, GotoLocals, NoArgType, ActorsOf DEF Locals, TypeOK, ConnTypeOK, PCs, ConnPCs, WebPCs
  <1>8. Links'
    BY DEF ForwardDeliver, Links, hubVars
  <1> QED
    BY <1>3, <1>5, <1>6, <1>7, <1>8 DEF TypeOK, WebTypeOK

LEMMA ForwardTargetType ==
  ASSUME Typed, NEW x \in Actors, NEW after \in {"idle", "leaving"}, x \in Conns => after = "idle",
         ForwardTarget(x, after), UNCHANGED shareOf
  PROVE  Typed'
  <1> DEFINE e == Endpoint(arg[x].to, clients, webPeers)
  <1> DEFINE a == [arg[x] EXCEPT !.conn = e]
  <1> USE DEF Typed
  <1>1. arg[x] \in Arg
    BY DEF TypeOK, ConnTypeOK
  <1>2. e \in Actors \cup {None}
    BY ActorsOf DEF Endpoint, TypeOK, HubTypeOK
  <1>3. a \in Arg
    BY <1>1, <1>2, ArgUpdate
  <1>4. GotoWith(x, after, NoArg) \/ GotoWith(x, "deliver", a)
    BY DEF ForwardTarget, Keep, Return, Goto, GotoWith
  <1> HIDE DEF e, a
  <1>5. /\ pc' \in [Actors -> PCs] /\ arg' \in [Actors -> Arg]
        /\ (pc' = [pc EXCEPT ![x] = after] \/ pc' = [pc EXCEPT ![x] = "deliver"])
    BY <1>1, <1>2, <1>3, <1>4, GotoType, NoArgType, ActorsOf DEF TypeOK, ConnTypeOK, PCs, ConnPCs, WebPCs
  <1>6. HubTypeOK'
    BY DEF ForwardTarget, hubVars, HubTypeOK, TypeOK
  <1>7. UNCHANGED connOnly
    BY DEF ForwardTarget, AuthSame, connOnly
  <1>8. ConnTypeOK'
    BY <1>5, <1>7 DEF connOnly, ConnTypeOK, TypeOK, PCs
  <1>9. Places'
    BY <1>5, <1>7, ActorsOf DEF ForwardTarget, Read, connOnly, ConnTypeOK, WebTypeOK, TypeOK, Places, ConnPCs, WebPCs
  <1>10. Locals'
    BY <1>1, <1>2, <1>3, <1>4, GotoLocals, NoArgType, ActorsOf DEF Locals, TypeOK, ConnTypeOK, PCs, ConnPCs, WebPCs
  <1>11. Links'
    BY DEF ForwardTarget, Links, hubVars
  <1> QED
    BY <1>6, <1>8, <1>9, <1>10, <1>11 DEF TypeOK, WebTypeOK

-----------------------------------------------------------------------------
(* Web control.                                                            *)

LEMMA RemoveType ==
  ASSUME Typed, NEW T, Remove(T), UNCHANGED <<clients, webPeers, sess, live, pending, told, shareOf>>
  PROVE  HubTypeOK' /\ Links'
  <1>1. share' \in [Tokens -> WebShare]
    BY DEF Remove, Typed, TypeOK, HubTypeOK, WebShare
  <1>2. \A t \in Tokens : /\ share'[t].dev = share[t].dev
                          /\ share'[t].st = "unused" <=> share[t].st = "unused"
    BY DEF Remove, Dead, Typed, TypeOK, HubTypeOK, WebShare
  <1>3. Links'
    BY <1>2 DEF Links, Typed, TypeOK, WebTypeOK
  <1> QED BY <1>1, <1>3 DEF Typed, TypeOK, HubTypeOK

\* A link is made by, or removed for, the connection that sent the message.
LEMMA ShareUpdateType ==
  ASSUME Typed, NEW t \in Tokens, NEW v \in WebShare, share' = [share EXCEPT ![t] = v],
         v.st # "unused", v.dev \in Devices,
         UNCHANGED <<clients, webPeers, sess, live, pending, told, shareOf>>
  PROVE  HubTypeOK' /\ Links'
  <1>1. HubTypeOK'
    BY DEF Typed, TypeOK, HubTypeOK
  <1>2. Links'
    BY DEF Typed, TypeOK, HubTypeOK, WebTypeOK, Links
  <1> QED BY <1>1, <1>2

LEMMA WebShareCreateType ==
  ASSUME Typed, NEW c \in Conns, NEW t \in Tokens, NEW mode \in WireModes, WebShareCreate(c, t, mode)
  PROVE  Typed'
  <1>1. devId[c] \in Devices
    BY DEF WebShareCreate, Typed, TypeOK, ConnTypeOK
  <1>2. [st |-> "active", dev |-> devId[c], mode |-> NormalizeSessionMode(mode)] \in WebShare
    BY <1>1, NormalizeType DEF WebShare
  <1>3. HubTypeOK' /\ Links'
    BY <1>1, <1>2, ShareUpdateType DEF WebShareCreate
  <1>4. /\ pc[c] = "idle" /\ connState' = [connState EXCEPT ![c] = IF @ = "quiet" THEN "open" ELSE @]
        /\ UNCHANGED <<devId, authCode, codeExpired, stale, asked, pc, arg, shareOf>>
    BY DEF WebShareCreate, Read, AuthSame, Keep
  <1>5. ConnTypeOK' /\ WebTypeOK' /\ Locals'
    BY <1>4 DEF Typed, TypeOK, ConnTypeOK, WebTypeOK, Locals
  <1>6. Places'
    BY <1>4 DEF Typed, TypeOK, ConnTypeOK, Places
  <1> QED
    BY <1>3, <1>5, <1>6 DEF Typed, TypeOK

LEMMA WebShareListType ==
  ASSUME Typed, NEW c \in Conns, WebShareList(c)
  PROVE  Typed'
  <1>1. HubTypeOK' /\ Links'
    BY RemoveType DEF WebShareList
  <1>2. /\ pc[c] = "idle" /\ connState' = [connState EXCEPT ![c] = IF @ = "quiet" THEN "open" ELSE @]
        /\ UNCHANGED <<devId, authCode, codeExpired, stale, asked, pc, arg, shareOf>>
    BY DEF WebShareList, Read, AuthSame, Keep
  <1>3. ConnTypeOK' /\ WebTypeOK' /\ Locals'
    BY <1>2 DEF Typed, TypeOK, ConnTypeOK, WebTypeOK, Locals
  <1>4. Places'
    BY <1>2 DEF Typed, TypeOK, ConnTypeOK, Places
  <1> QED
    BY <1>1, <1>3, <1>4 DEF Typed, TypeOK

LEMMA WebShareRevokeType ==
  ASSUME Typed, NEW c \in Conns, NEW t \in Tokens, WebShareRevoke(c, t)
  PROVE  Typed'
  <1>1. devId[c] \in Devices /\ share[t].dev = devId[c]
    BY DEF WebShareRevoke, Dead, Typed, Links
  <1>2. /\ [share[t] EXCEPT !.st = "removed"] \in WebShare
        /\ [share[t] EXCEPT !.st = "removed"].dev \in Devices
        /\ [share[t] EXCEPT !.st = "removed"].st # "unused"
        /\ share' = [share EXCEPT ![t] = [share[t] EXCEPT !.st = "removed"]]
    BY <1>1 DEF WebShareRevoke, Typed, TypeOK, HubTypeOK, WebShare
  <1>3. HubTypeOK' /\ Links'
    BY <1>1, <1>2, ShareUpdateType DEF WebShareRevoke
  <1>4. /\ pc[c] = "idle" /\ connState' = [connState EXCEPT ![c] = IF @ = "quiet" THEN "open" ELSE @]
        /\ UNCHANGED <<devId, authCode, codeExpired, stale, asked, pc, arg, shareOf>>
    BY DEF WebShareRevoke, Read, AuthSame, Keep
  <1>5. ConnTypeOK' /\ WebTypeOK' /\ Locals'
    BY <1>4 DEF Typed, TypeOK, ConnTypeOK, WebTypeOK, Locals
  <1>6. Places'
    BY <1>4 DEF Typed, TypeOK, ConnTypeOK, Places
  <1> QED
    BY <1>3, <1>5, <1>6 DEF Typed, TypeOK

LEMMA WebShareExpiresType ==
  ASSUME Typed, NEW t \in Tokens, WebShareExpires(t)
  PROVE  Typed'
  <1> DEFINE v == [share[t] EXCEPT !.st = "expired"]
  <1>1. v \in WebShare /\ v.dev \in Devices /\ v.st # "unused"
    BY DEF WebShareExpires, Typed, Links, TypeOK, HubTypeOK, WebShare
  <1>2. share' = [share EXCEPT ![t] = v] /\ UNCHANGED shareOf /\ UNCHANGED connVars
    BY DEF WebShareExpires
  <1> HIDE DEF v
  <1>3. HubTypeOK' /\ Links'
    BY <1>1, <1>2, ShareUpdateType DEF WebShareExpires
  <1> QED
    BY <1>2, <1>3 DEF Typed, TypeOK, ConnTypeOK, WebTypeOK, Places, Locals, connVars

LEMMA WebPageType ==
  ASSUME Typed, NEW t \in Tokens, WebPage(t)
  PROVE  Typed'
  <1>1. UNCHANGED shareOf /\ UNCHANGED connVars
    BY DEF WebPage
  <1>2. HubTypeOK' /\ Links'
    BY <1>1, RemoveType DEF WebPage
  <1> QED
    BY <1>1, <1>2 DEF Typed, TypeOK, ConnTypeOK, WebTypeOK, Places, Locals, connVars

LEMMA WebOpenType ==
  ASSUME Typed, NEW p \in Peers, NEW t \in Tokens,
         WebOpen(p, t)
  PROVE  Typed'
  <1> USE DEF Typed
  <1>1. shareOf' = [shareOf EXCEPT ![p] = t] /\ pc[p] = "none"
    BY DEF WebOpen
  <1>2. share[t].st # "unused" /\ UNCHANGED share
    BY DEF WebOpen, IsActive, hubVars
  <1>3. pc' = [pc EXCEPT ![p] = "check"] /\ arg' = arg
    BY DEF WebOpen, Keep, Return, Goto, GotoWith
  <1>4. /\ pc' \in [Actors -> PCs] /\ arg' \in [Actors -> Arg]
        /\ pc' = [pc EXCEPT ![p] = "check"]
    BY <1>1, <1>2, <1>3, GotoType, NoArgType, ActorsOf DEF TypeOK, ConnTypeOK, PCs, ConnPCs, WebPCs
  <1>5. HubTypeOK'
    BY DEF WebOpen, hubVars, HubTypeOK, TypeOK
  <1>6. UNCHANGED connOnly
    BY DEF WebOpen, AuthSame, connOnly
  <1>7. ConnTypeOK'
    BY <1>4, <1>6 DEF connOnly, ConnTypeOK, TypeOK, PCs
  <1>8. Places'
    BY <1>1, <1>4, <1>6, ActorsOf DEF WebOpen, Read, connOnly, ConnTypeOK, WebTypeOK, TypeOK, Places, ConnPCs, WebPCs
  <1>9. Locals'
    BY <1>1, <1>2, <1>3, GotoLocals, NoArgType, ActorsOf DEF Locals, TypeOK, ConnTypeOK, PCs, ConnPCs, WebPCs
  <1>10. Links'
    BY <1>1, <1>2 DEF Links, TypeOK, WebTypeOK, HubTypeOK
  <1> QED
    BY <1>1, <1>5, <1>7, <1>8, <1>9, <1>10 DEF TypeOK, WebTypeOK

LEMMA WebCheckType ==
  ASSUME Typed, NEW p \in Peers,
         WebCheck(p)
  PROVE  Typed'
  <1> USE DEF Typed
  <1>1. pc[p] = "check" /\ UNCHANGED shareOf
    BY DEF WebCheck
  <1>2. \/ pc' = [pc EXCEPT ![p] = "lookup"] /\ arg' = arg
        \/ pc' = [pc EXCEPT ![p] = "leaving"] /\ arg' = arg
    BY DEF WebCheck, Keep, Return, Goto, GotoWith
  <1>3. /\ pc' \in [Actors -> PCs] /\ arg' \in [Actors -> Arg]
        /\ (pc' = [pc EXCEPT ![p] = "lookup"] \/ pc' = [pc EXCEPT ![p] = "leaving"])
    BY <1>1, <1>2, GotoType, NoArgType, ActorsOf DEF TypeOK, ConnTypeOK, PCs, ConnPCs, WebPCs
  <1>4. HubTypeOK'
    BY RemoveType DEF WebCheck
  <1>5. UNCHANGED connOnly
    BY DEF WebCheck, AuthSame, connOnly
  <1>6. ConnTypeOK'
    BY <1>3, <1>5 DEF connOnly, ConnTypeOK, TypeOK, PCs
  <1>7. Places'
    BY <1>1, <1>3, <1>5, ActorsOf DEF WebCheck, Read, connOnly, ConnTypeOK, WebTypeOK, TypeOK, Places, ConnPCs, WebPCs
  <1>8. Locals'
    BY <1>1, <1>2, GotoLocals, NoArgType, ActorsOf DEF Locals, TypeOK, ConnTypeOK, PCs, ConnPCs, WebPCs
  <1>9. Links'
    BY RemoveType DEF WebCheck, Links
  <1> QED
    BY <1>1, <1>4, <1>6, <1>7, <1>8, <1>9 DEF TypeOK, WebTypeOK

LEMMA WebLookupType ==
  ASSUME Typed, NEW p \in Peers,
         WebLookup(p)
  PROVE  Typed'
  <1> DEFINE dev == share[shareOf[p]].dev
  <1> DEFINE a == [NoArg EXCEPT !.to = dev, !.conn = clients[dev], !.mode = share[shareOf[p]].mode]
  <1> USE DEF Typed
  <1>1. pc[p] = "lookup" /\ shareOf[p] \in Tokens /\ UNCHANGED shareOf
    BY DEF WebLookup, Places, TypeOK, WebTypeOK
  <1>2. share[shareOf[p]] \in WebShare /\ dev \in Devices
    BY <1>1 DEF Links, TypeOK, HubTypeOK
  <1>3. clients[dev] \in Conns \cup {None}
    BY <1>2 DEF TypeOK, HubTypeOK
  <1>4. a \in Arg
    BY <1>2, <1>3, ActorsOf DEF NoArg, Arg, AllKinds, WebShare
  <1>5. \/ pc' = [pc EXCEPT ![p] = "leaving"] /\ arg' = arg
        \/ GotoWith(p, "insert", a)
    BY DEF WebLookup, Keep, Return, Goto, GotoWith
  <1> HIDE DEF dev, a
  <1>6. /\ pc' \in [Actors -> PCs] /\ arg' \in [Actors -> Arg]
        /\ (pc' = [pc EXCEPT ![p] = "leaving"] \/ pc' = [pc EXCEPT ![p] = "insert"])
    <2>1. ConnTypeOK /\ p \in Actors /\ {"leaving", "insert"} \subseteq PCs
      BY ActorsOf DEF TypeOK, PCs, ConnPCs, WebPCs
    <2>2. CASE pc' = [pc EXCEPT ![p] = "leaving"] /\ arg' = arg
      BY <2>1, <2>2 DEF ConnTypeOK, PCs
    <2>3. CASE GotoWith(p, "insert", a)
      BY <1>4, <2>1, <2>3, GotoType
    <2> QED BY <1>5, <2>2, <2>3
  <1>7. HubTypeOK'
    BY DEF WebLookup, hubVars, HubTypeOK, TypeOK
  <1>8. UNCHANGED connOnly
    BY DEF WebLookup, AuthSame, connOnly
  <1>9. ConnTypeOK'
    BY <1>6, <1>8 DEF connOnly, ConnTypeOK, TypeOK, PCs
  <1>10. Places'
    BY <1>1, <1>6, <1>8, ActorsOf DEF WebLookup, Read, connOnly, ConnTypeOK, WebTypeOK, TypeOK, Places, ConnPCs, WebPCs
  <1>11. Locals'
    BY <1>1, <1>2, <1>3, <1>4, <1>5, GotoLocals, NoArgType, ActorsOf DEF Locals, TypeOK, ConnTypeOK, PCs, ConnPCs, WebPCs
  <1>12. Links'
    BY DEF WebLookup, Links, hubVars
  <1> QED
    BY <1>1, <1>7, <1>9, <1>10, <1>11, <1>12 DEF TypeOK, WebTypeOK

LEMMA WebInsertType ==
  ASSUME Typed, NEW p \in Peers,
         WebInsert(p)
  PROVE  Typed'
  <1> USE DEF Typed
  <1>1. pc[p] = "insert" /\ UNCHANGED shareOf
    BY DEF WebInsert
  <1>2. pc' = [pc EXCEPT ![p] = "store"] /\ arg' = arg
    BY DEF WebInsert, Keep, Return, Goto, GotoWith
  <1>3. /\ pc' \in [Actors -> PCs] /\ arg' \in [Actors -> Arg]
        /\ pc' = [pc EXCEPT ![p] = "store"]
    BY <1>1, <1>2, GotoType, NoArgType, ActorsOf DEF TypeOK, ConnTypeOK, PCs, ConnPCs, WebPCs
  <1>4. HubTypeOK'
    BY DEF WebInsert, HubTypeOK, TypeOK
  <1>5. UNCHANGED connOnly
    BY DEF WebInsert, AuthSame, connOnly
  <1>6. ConnTypeOK'
    BY <1>3, <1>5 DEF connOnly, ConnTypeOK, TypeOK, PCs
  <1>7. Places'
    BY <1>1, <1>3, <1>5, ActorsOf DEF WebInsert, Read, connOnly, ConnTypeOK, WebTypeOK, TypeOK, Places, ConnPCs, WebPCs
  <1>8. Locals'
    BY <1>1, <1>2, GotoLocals, NoArgType, ActorsOf DEF Locals, TypeOK, ConnTypeOK, PCs, ConnPCs, WebPCs
  <1>9. Links'
    BY DEF WebInsert, Links
  <1> QED
    BY <1>1, <1>4, <1>6, <1>7, <1>8, <1>9 DEF TypeOK, WebTypeOK

LEMMA WebForwardType ==
  ASSUME Typed, NEW p \in Peers, NEW kind \in AllKinds, NEW s \in SessionIds,
         WebForward(p, kind, s)
  PROVE  Typed'
  <1> DEFINE a == [NoArg EXCEPT !.kind = kind, !.sid = s, !.to = sess[s].dev]
  <1> USE DEF Typed
  <1>1. pc[p] = "idle" /\ UNCHANGED shareOf
    BY DEF WebForward
  <1>2. a \in Arg
    BY ActorsOf DEF NoArg, Arg, Modes, AllKinds, TypeOK, HubTypeOK, Session
  <1>3. UNCHANGED <<pc, arg>> \/ GotoWith(p, "target", a)
    BY DEF WebForward, Keep, Return, Goto, GotoWith
  <1> HIDE DEF a
  <1>4. /\ pc' \in [Actors -> PCs] /\ arg' \in [Actors -> Arg]
        /\ (pc' = pc \/ pc' = [pc EXCEPT ![p] = "target"])
    BY <1>1, <1>2, <1>3, GotoType, NoArgType, ActorsOf DEF TypeOK, ConnTypeOK, PCs, ConnPCs, WebPCs
  <1>5. HubTypeOK'
    BY DEF WebForward, hubVars, HubTypeOK, TypeOK
  <1>6. UNCHANGED connOnly
    BY DEF WebForward, AuthSame, connOnly
  <1>7. ConnTypeOK'
    BY <1>4, <1>6 DEF connOnly, ConnTypeOK, TypeOK, PCs
  <1>8. Places'
    BY <1>1, <1>4, <1>6, ActorsOf DEF WebForward, Read, connOnly, ConnTypeOK, WebTypeOK, TypeOK, Places, ConnPCs, WebPCs
  <1>9. Locals'
    BY <1>1, <1>2, <1>3, GotoLocals, NoArgType, ActorsOf DEF Locals, TypeOK, ConnTypeOK, PCs, ConnPCs, WebPCs
  <1>10. Links'
    BY DEF WebForward, Links, hubVars
  <1> QED
    BY <1>1, <1>5, <1>7, <1>8, <1>9, <1>10 DEF TypeOK, WebTypeOK

LEMMA WebSessionCloseType ==
  ASSUME Typed, NEW p \in Peers, NEW s \in SessionIds,
         WebSessionClose(p, s)
  PROVE  Typed'
  <1> USE DEF Typed
  <1>1. UNCHANGED shareOf
    BY DEF WebSessionClose
  <1>2. UNCHANGED <<pc, arg>>
    BY DEF WebSessionClose, connVars
  <1>3. /\ pc' \in [Actors -> PCs] /\ arg' \in [Actors -> Arg]
        /\ pc' = pc
    BY <1>1, <1>2, GotoType, NoArgType, ActorsOf DEF TypeOK, ConnTypeOK, PCs, ConnPCs, WebPCs
  <1>4. HubTypeOK'
    BY CloseSessionType DEF WebSessionClose, TypeOK
  <1>5. UNCHANGED connOnly
    BY DEF WebSessionClose, connVars, connOnly
  <1>6. ConnTypeOK'
    BY <1>3, <1>5 DEF connOnly, ConnTypeOK, TypeOK, PCs
  <1>7. Places'
    BY <1>1, <1>3, <1>5, ActorsOf DEF WebSessionClose, Read, connOnly, ConnTypeOK, WebTypeOK, TypeOK, Places, ConnPCs, WebPCs
  <1>8. Locals'
    BY <1>1, <1>2, GotoLocals, NoArgType, ActorsOf DEF Locals, TypeOK, ConnTypeOK, PCs, ConnPCs, WebPCs
  <1>9. Links'
    BY DEF WebSessionClose, CloseSession, Links
  <1> QED
    BY <1>1, <1>4, <1>6, <1>7, <1>8, <1>9 DEF TypeOK, WebTypeOK

LEMMA WebReadErrorType ==
  ASSUME Typed, NEW p \in Peers,
         WebReadError(p)
  PROVE  Typed'
  <1> USE DEF Typed
  <1>1. pc[p] = "idle" /\ UNCHANGED shareOf
    BY DEF WebReadError
  <1>2. pc' = [pc EXCEPT ![p] = "leaving"] /\ arg' = arg
    BY DEF WebReadError, Keep, Return, Goto, GotoWith
  <1>3. /\ pc' \in [Actors -> PCs] /\ arg' \in [Actors -> Arg]
        /\ pc' = [pc EXCEPT ![p] = "leaving"]
    BY <1>1, <1>2, GotoType, NoArgType, ActorsOf DEF TypeOK, ConnTypeOK, PCs, ConnPCs, WebPCs
  <1>4. HubTypeOK'
    BY DEF WebReadError, hubVars, HubTypeOK, TypeOK
  <1>5. UNCHANGED connOnly
    BY DEF WebReadError, AuthSame, connOnly
  <1>6. ConnTypeOK'
    BY <1>3, <1>5 DEF connOnly, ConnTypeOK, TypeOK, PCs
  <1>7. Places'
    BY <1>1, <1>3, <1>5, ActorsOf DEF WebReadError, Read, connOnly, ConnTypeOK, WebTypeOK, TypeOK, Places, ConnPCs, WebPCs
  <1>8. Locals'
    BY <1>1, <1>2, GotoLocals, NoArgType, ActorsOf DEF Locals, TypeOK, ConnTypeOK, PCs, ConnPCs, WebPCs
  <1>9. Links'
    BY DEF WebReadError, Links, hubVars
  <1> QED
    BY <1>1, <1>4, <1>6, <1>7, <1>8, <1>9 DEF TypeOK, WebTypeOK

LEMMA WebLeaveType ==
  ASSUME Typed, NEW p \in Peers,
         WebLeave(p)
  PROVE  Typed'
  <1> USE DEF Typed
  <1>1. pc[p] = "leaving" /\ UNCHANGED shareOf
    BY DEF WebLeave
  <1>2. webPeers \ {p} \in SUBSET Peers /\ clients \in [Devices -> Conns \cup {None}]
    BY DEF TypeOK, HubTypeOK
  <1>3. UNCHANGED share /\ share \in [Tokens -> WebShare]
    BY DEF WebLeave, UnregisterWebPeer, TypeOK, HubTypeOK
  <1>4. GotoWith(p, "ended", NoArg)
    BY DEF WebLeave, Keep, Return, Goto, GotoWith
  <1>5. /\ pc' \in [Actors -> PCs] /\ arg' \in [Actors -> Arg]
        /\ pc' = [pc EXCEPT ![p] = "ended"]
    BY <1>1, <1>2, <1>3, <1>4, GotoType, NoArgType, ActorsOf DEF TypeOK, ConnTypeOK, PCs, ConnPCs, WebPCs
  <1>6. HubTypeOK'
    BY <1>2, <1>3, ForgetType DEF WebLeave, UnregisterWebPeer, TypeOK
  <1>7. UNCHANGED connOnly
    BY DEF WebLeave, AuthSame, connOnly
  <1>8. ConnTypeOK'
    BY <1>5, <1>7 DEF connOnly, ConnTypeOK, TypeOK, PCs
  <1>9. Places'
    BY <1>1, <1>5, <1>7, ActorsOf DEF WebLeave, Read, connOnly, ConnTypeOK, WebTypeOK, TypeOK, Places, ConnPCs, WebPCs
  <1>10. Locals'
    BY <1>1, <1>2, <1>3, <1>4, GotoLocals, NoArgType, ActorsOf DEF Locals, TypeOK, ConnTypeOK, PCs, ConnPCs, WebPCs
  <1>11. Links'
    BY DEF WebLeave, UnregisterWebPeer, Links
  <1> QED
    BY <1>1, <1>6, <1>8, <1>9, <1>10, <1>11 DEF TypeOK, WebTypeOK

-----------------------------------------------------------------------------
(* The theorem.                                                            *)

LEMMA TypeInit == Init => Typed
  BY DEF Init, HubInit, ConnInit, WebInit, Typed, TypeOK, HubTypeOK, ConnTypeOK, WebTypeOK,
     Places, Locals, Links, Parties, Actors, Beliefs, NoArg, Arg, NoSession, Session, NoShare,
     WebShare, Modes, AllKinds, ConnPCs, WebPCs

LEMMA MessageType ==
  ASSUME Typed, NEW c \in Conns, Message(c), UNCHANGED shareOf
  PROVE  Typed'
  <1>1. CASE \E code \in Codes : AuthCodePublish(c, code)
    BY <1>1, AuthCodePublishType
  <1>2. CASE \E d \in Devices, mode \in WireModes, code \in Codes \cup {None} :
                SessionRequest(c, d, mode, code)
    BY <1>2, SessionRequestType
  <1>3. CASE \E ctl \in Parties, accepted, input \in BOOLEAN, mode \in WireModes :
                SessionConfirm(c, ctl, accepted, mode, input)
    BY <1>3, SessionConfirmType
  <1>4. CASE \E s \in SessionIds : SessionClose(c, s) \/ \E kind \in Kinds : Forward(c, kind, s)
    BY <1>4, SessionCloseType, ForwardType
  <1> QED BY <1>1, <1>2, <1>3, <1>4 DEF Message

LEMMA HandleType ==
  ASSUME Typed, NEW c \in Conns, Handle(c), UNCHANGED shareOf
  PROVE  Typed'
  <1>1. c \in Actors
    BY ActorsOf
  <1>2. CASE RegisterRefused(c) \/ RegisterInsert(c) \/ EvictClose(c) \/ EvictReturn(c)
    BY <1>2, RegisterRefusedType, RegisterInsertType, EvictCloseType, EvictReturnType
  <1>3. CASE RequestAuth(c) \/ RequestStore(c) \/ RequestSent(c, "idle") \/ RequestNotSent(c, "idle")
    BY <1>1, <1>3, RequestAuthType, RequestStoreType, RequestSentType, RequestNotSentType
  <1>4. CASE ConfirmConsume(c) \/ (\E s \in SessionIds : ConfirmCreate(c, s))
    BY <1>4, ConfirmConsumeType, ConfirmCreateType
  <1>5. CASE ReadyToController(c) \/ ReadyToControlled(c)
    BY <1>5, ReadyToControllerType, ReadyToControlledType
  <1>6. CASE ForwardRoute(c) \/ ForwardTarget(c, "idle") \/ ForwardDeliver(c, "idle")
    BY <1>1, <1>6, ForwardRouteType, ForwardTargetType, ForwardDeliverType
  <1> QED BY <1>2, <1>3, <1>4, <1>5, <1>6 DEF Handle

LEMMA ConnType ==
  ASSUME Typed, ConnNext
  PROVE  Typed'
  <1>1. UNCHANGED shareOf
    BY DEF ConnNext
  <1>2. CASE Reaper
    BY <1>1, <1>2, ReaperScanType, ReaperCloseType DEF Reaper
  <1>3. ASSUME NEW c \in Conns, Message(c) \/ Handle(c)
        PROVE  Typed'
    BY <1>1, <1>3, MessageType, HandleType
  <1>4. ASSUME NEW c \in Conns, RegisterBegin(c) \/ ReadError(c) \/ WriteError(c)
        PROVE  Typed'
    BY <1>1, <1>4, RegisterBeginType, ReadErrorType, WriteErrorType
  <1>5. ASSUME NEW c \in Conns, CloseUnregister(c) \/ GoQuiet(c) \/ CodeExpires(c)
        PROVE  Typed'
    BY <1>1, <1>5, CloseUnregisterType, GoQuietType, CodeExpiresType
  <1> QED BY <1>2, <1>3, <1>4, <1>5 DEF ConnNext

LEMMA ShareType ==
  ASSUME Typed, ShareNext
  PROVE  Typed'
  BY WebShareCreateType, WebShareRevokeType, WebShareListType, WebShareExpiresType,
     WebPageType DEF ShareNext

LEMMA WebHandleType ==
  ASSUME Typed, NEW p \in Peers, WebHandle(p)
  PROVE  Typed'
  <1>1. p \in Actors /\ p \notin Conns
    BY ActorsOf
  <1>2. CASE WebCheck(p) \/ WebLookup(p) \/ WebInsert(p) \/ WebLeave(p)
    BY <1>2, WebCheckType, WebLookupType, WebInsertType, WebLeaveType
  <1>3. CASE /\ RequestStore(p) \/ RequestSent(p, "idle") \/ RequestNotSent(p, "leaving")
                \/ ForwardTarget(p, "idle") \/ ForwardDeliver(p, "idle")
             /\ UNCHANGED shareOf
    BY <1>1, <1>3, RequestStoreType, RequestSentType, RequestNotSentType,
       ForwardTargetType, ForwardDeliverType
  <1> QED BY <1>2, <1>3 DEF WebHandle

LEMMA WebType ==
  ASSUME Typed, WebNext
  PROVE  Typed'
  <1>1. ASSUME NEW p \in Peers, NEW t \in Tokens, WebOpen(p, t)
        PROVE  Typed'
    BY <1>1, WebOpenType
  <1>2. ASSUME NEW p \in Peers, WebHandle(p)
        PROVE  Typed'
    BY <1>2, WebHandleType
  <1>3. ASSUME NEW p \in Peers, NEW s \in SessionIds,
               WebSessionClose(p, s) \/ \E kind \in Kinds : WebForward(p, kind, s)
        PROVE  Typed'
    BY <1>3, WebSessionCloseType, WebForwardType
  <1>4. ASSUME NEW p \in Peers, WebReadError(p)
        PROVE  Typed'
    BY <1>4, WebReadErrorType
  <1> QED BY <1>1, <1>2, <1>3, <1>4 DEF WebNext

\* Every step keeps the state typed.
LEMMA TypeStep == Typed /\ [Next]_vars => Typed'
  <1> SUFFICES ASSUME Typed, [Next]_vars PROVE Typed'
    OBVIOUS
  <1>1. CASE Next
    BY <1>1, ConnType, ShareType, WebType DEF Next
  <1>2. CASE UNCHANGED vars
    BY <1>2 DEF vars, hubVars, connVars, Typed, TypeOK, HubTypeOK, ConnTypeOK, WebTypeOK,
       Places, Locals, Links
  <1> QED BY <1>1, <1>2

LEMMA TypedAlways == Spec => []Typed
  BY TypeInit, TypeStep, PTL DEF Spec

\* The registry's maps, every handler's locals and every connection's state
\* stay in their types, for any number of connections, devices, visitors,
\* sessions, links and codes (hub.go, client.go, server.go, webpeer.go).
THEOREM TypeCorrect == Spec => []TypeOK
  <1>1. Typed => TypeOK
    BY DEF Typed
  <1> QED BY <1>1, TypedAlways, PTL

-----------------------------------------------------------------------------
(* The registry.                                                           *)

\* What most steps do: only actor x moves, to a place that is not part of a
\* registration, and no connection is registered.
Moves(x, L) ==
  /\ \A y \in Actors : y # x => pc'[y] = pc[y] /\ arg'[y] = arg[y]
  /\ pc'[x] \in L \/ (pc'[x] = pc[x] /\ arg'[x] = arg[x])

Elsewhere == {"idle", "ended", "auth", "store", "send", "confirm", "create", "readyCtl",
              "readyDev", "route", "target", "deliver"} \cup WebPCs

LeavesRegistry(x) == UNCHANGED <<clients, devId>> /\ Moves(x, Elsewhere)

\* A connection whose registration is decided after the step.
Settled(c) == devId'[c] # None /\ pc'[c] # "register"

LEMMA GotoMoves ==
  ASSUME Typed, NEW x \in Actors, NEW l, NEW a, GotoWith(x, l, a)
  PROVE  /\ pc'[x] = l /\ arg'[x] = a
         /\ \A y \in Actors : y # x => pc'[y] = pc[y] /\ arg'[y] = arg[y]
  BY DEF GotoWith, Typed, TypeOK, ConnTypeOK

LEMMA KeepMoves ==
  ASSUME Keep, NEW x, NEW L
  PROVE  Moves(x, L)
  BY DEF Keep, Moves

LEMMA GotoElsewhere ==
  ASSUME Typed, NEW x \in Actors, NEW l \in Elsewhere, NEW a, GotoWith(x, l, a)
  PROVE  Moves(x, Elsewhere)
  BY GotoMoves DEF Moves

LEMMA StepElsewhere ==
  ASSUME Typed, NEW x \in Actors, NEW l \in Elsewhere, Goto(x, l)
  PROVE  Moves(x, Elsewhere)
  BY DEF Goto, Moves, Typed, TypeOK, ConnTypeOK

LEMMA LeavesRegistryStep ==
  ASSUME Typed, Registry, NEW x \in Actors, LeavesRegistry(x)
  PROVE  Registry'
  <1>1. \A c \in Conns : pc'[c] \in {"register", "evict"} => pc'[c] = pc[c] /\ arg'[c] = arg[c]
    BY ActorsOf DEF LeavesRegistry, Moves, Elsewhere, WebPCs
  <1>2. \A c \in Conns : Decided(c) => Settled(c)
    BY <1>1 DEF Decided, Settled, LeavesRegistry
  <1>3. \A c \in Conns : pc'[c] = "evict" => arg'[c].conn \in Conns /\ Settled(arg'[c].conn)
    BY <1>1, <1>2 DEF Registry, Decided, Settled
  <1>4. \A d \in Devices : clients'[d] # None => Settled(clients'[d]) /\ devId'[clients'[d]] = d
    BY <1>2 DEF Registry, LeavesRegistry, Typed, TypeOK, HubTypeOK
  <1> QED BY <1>3, <1>4 DEF Registry, Decided, Settled

LEMMA MessageRegistry ==
  ASSUME Typed, Registry, NEW c \in Conns, Message(c)
  PROVE  Registry'
  <1>1. c \in Actors
    BY ActorsOf
  <1>2. UNCHANGED <<clients, devId>>
    BY DEF Message, AuthCodePublish, SessionRequest, SessionConfirm, SessionClose, Forward,
       CloseSession, AuthSame, hubVars
  <1>3. Moves(c, Elsewhere)
    BY <1>1, KeepMoves, GotoElsewhere DEF Elsewhere, Message, AuthCodePublish, SessionRequest,
       SessionConfirm, SessionClose, Forward
  <1> QED
    BY <1>1, <1>2, <1>3, LeavesRegistryStep DEF LeavesRegistry

LEMMA RegisterInsertRegistry ==
  ASSUME Typed, Registry, NEW c \in Conns, RegisterInsert(c)
  PROVE  Registry'
  <1> DEFINE old == clients[devId[c]]
  <1>1. c \in Actors /\ pc[c] = "register" /\ devId[c] \in Devices /\ devId[c] # None
    BY ActorsOf, ConstantsAssumption DEF RegisterInsert, Typed, Places
  <1>2. clients' = [clients EXCEPT ![devId[c]] = c] /\ UNCHANGED devId
    BY DEF RegisterInsert, Insert, AuthSame
  <1>3. /\ \A y \in Actors : y # c => pc'[y] = pc[y] /\ arg'[y] = arg[y]
        /\ \/ pc'[c] = "idle"
           \/ pc'[c] = "evict" /\ arg'[c].conn = old /\ old \notin {None, c}
    <2>1. CASE Return(c)
      BY <1>1, <2>1, GotoMoves DEF Return
    <2>2. CASE GotoWith(c, "evict", [NoArg EXCEPT !.conn = old]) /\ old \notin {None, c}
      <3> DEFINE a == [NoArg EXCEPT !.conn = old]
      <3>1. a.conn = old
        BY DEF NoArg
      <3>2. GotoWith(c, "evict", a) /\ old \notin {None, c}
        BY <2>2
      <3> HIDE DEF a, old
      <3>3. /\ pc'[c] = "evict" /\ arg'[c] = a
            /\ \A y \in Actors : y # c => pc'[y] = pc[y] /\ arg'[y] = arg[y]
        BY <1>1, <3>2, GotoMoves
      <3> QED BY <3>1, <3>2, <3>3
    <2> QED BY <2>1, <2>2 DEF RegisterInsert
  <1>4. old # None => old \in Conns /\ Decided(old)
    BY <1>1 DEF Registry, Typed, TypeOK, HubTypeOK
  <1> HIDE DEF old
  <1>5. \A o \in Conns : Decided(o) \/ o = c => Settled(o)
    BY <1>1, <1>2, <1>3, ActorsOf DEF Decided, Settled
  <1>6. \A o \in Conns : pc'[o] = "evict" => arg'[o].conn \in Conns /\ Settled(arg'[o].conn)
    BY <1>3, <1>4, <1>5, ActorsOf DEF Registry, Decided, Settled
  <1>7. \A d \in Devices : clients'[d] # None => Settled(clients'[d]) /\ devId'[clients'[d]] = d
    BY <1>1, <1>2, <1>5 DEF Registry, Typed, TypeOK, HubTypeOK
  <1> QED BY <1>6, <1>7 DEF Registry, Decided, Settled

LEMMA HandleRegistry ==
  ASSUME Typed, Registry, NEW c \in Conns, Handle(c)
  PROVE  Registry'
  <1>1. c \in Actors
    BY ActorsOf
  <1>2. CASE ~RegisterInsert(c)
    <2>1. UNCHANGED <<clients, devId>>
      BY <1>2 DEF Handle, RegisterRefused, EvictClose, EvictReturn, RequestAuth, RequestStore,
         RequestSent, RequestNotSent, ConfirmConsume, ConfirmCreate, ReadyToController,
         ReadyToControlled, ForwardRoute, ForwardTarget, ForwardDeliver, AuthSame, hubVars,
         StorePendingRequest, ConsumePendingRequest, CreateSession
    <2>2. Moves(c, Elsewhere)
      <3>1. CASE RegisterRefused(c) \/ EvictReturn(c) \/ RequestSent(c, "idle")
                 \/ RequestNotSent(c, "idle") \/ ForwardDeliver(c, "idle") \/ ReadyToControlled(c)
        BY <1>1, <3>1, GotoElsewhere DEF RegisterRefused, EvictReturn, RequestSent,
           RequestNotSent, ForwardDeliver, ReadyToControlled, Return, Elsewhere
      <3>2. CASE RequestAuth(c) \/ RequestStore(c) \/ ReadyToController(c)
        BY <1>1, <3>2, GotoElsewhere, StepElsewhere DEF RequestAuth, RequestStore,
           ReadyToController, Return, Elsewhere
      <3>3. CASE ConfirmConsume(c) \/ \E s \in SessionIds : ConfirmCreate(c, s)
        BY <1>1, <3>3, GotoElsewhere DEF ConfirmConsume, ConfirmCreate, Return, Elsewhere
      <3>4. CASE ForwardRoute(c) \/ ForwardTarget(c, "idle")
        BY <1>1, <3>4, GotoElsewhere DEF ForwardRoute, ForwardTarget, Return, Elsewhere
      <3>5. CASE EvictClose(c)
        BY <3>5, KeepMoves DEF EvictClose
      <3> QED BY <1>2, <3>1, <3>2, <3>3, <3>4, <3>5 DEF Handle
    <2> QED BY <1>1, <2>1, <2>2, LeavesRegistryStep DEF LeavesRegistry
  <1> QED BY <1>2, RegisterInsertRegistry

LEMMA RegisterBeginRegistry ==
  ASSUME Typed, Registry, NEW c \in Conns, RegisterBegin(c)
  PROVE  Registry'
  <1>1. /\ devId[c] = None /\ UNCHANGED <<arg, clients>>
        /\ devId' = [devId EXCEPT ![c] = DeviceOf[c]]
        /\ pc' = [pc EXCEPT ![c] = "register"]
    BY DEF RegisterBegin, Goto, hubVars
  <1>2. \A o \in Conns : o # c => pc'[o] = pc[o] /\ devId'[o] = devId[o]
    BY <1>1 DEF Typed, TypeOK, ConnTypeOK
  <1>3. \A o \in Conns : Decided(o) => Settled(o) /\ devId'[o] = devId[o]
    BY <1>1, <1>2 DEF Decided, Settled
  <1>4. pc'[c] # "evict"
    BY <1>1, ActorsOf DEF Typed, TypeOK, ConnTypeOK
  <1>5. \A o \in Conns : pc'[o] = "evict" => arg'[o].conn \in Conns /\ Settled(arg'[o].conn)
    BY <1>1, <1>2, <1>3, <1>4 DEF Registry, Decided, Settled
  <1>6. \A d \in Devices : clients'[d] # None => Settled(clients'[d]) /\ devId'[clients'[d]] = d
    BY <1>1, <1>3 DEF Registry, Typed, TypeOK, HubTypeOK
  <1> QED BY <1>5, <1>6 DEF Registry, Decided, Settled

\* The end of a close() takes a place at most.
LEMMA UnregisterPlaces ==
  ASSUME Typed, NEW c \in Conns, CloseUnregister(c)
  PROVE  \A d \in Devices :
           clients'[d] = IF devId[c] = d /\ clients[d] = c THEN None ELSE clients[d]
  <1>1. CASE devId[c] = None
    <2>1. UNCHANGED clients /\ devId[c] \notin Devices
      BY <1>1, ConstantsAssumption DEF CloseUnregister, hubVars
    <2> QED BY <2>1
  <1>2. CASE devId[c] # None
    <2>1. clients' = [clients EXCEPT ![devId[c]] = IF @ = c THEN None ELSE @]
      BY <1>2 DEF CloseUnregister, Unregister, ForgetParty
    <2> QED BY <1>2, <2>1 DEF Typed, TypeOK, HubTypeOK, ConnTypeOK
  <1> QED BY <1>1, <1>2

LEMMA ScanRegistry ==
  ASSUME Registry, ReaperScan
  PROVE  Registry'
  BY DEF ReaperScan, Keep, AuthSame, hubVars, Registry, Decided

LEMMA LifecycleRegistry ==
  ASSUME Typed, Registry, NEW c \in Conns,
         \/ CloseUnregister(c) \/ ReadError(c) \/ WriteError(c) \/ GoQuiet(c) \/ CodeExpires(c)
         \/ ReaperClose(c)
  PROVE  Registry'
  <1>1. c \in Actors
    BY ActorsOf
  <1>2. CASE CloseUnregister(c)
    <2>1. UNCHANGED <<pc, arg, devId>>
      BY <1>2 DEF CloseUnregister, Keep, AuthSame
    <2>2. \A d \in Devices : clients'[d] \in {None, clients[d]}
      BY <1>2, UnregisterPlaces
    <2> QED BY <2>1, <2>2 DEF Registry, Decided
  <1>3. CASE ReadError(c)
    BY <1>1, <1>3, StepElsewhere, LeavesRegistryStep
       DEF ReadError, AuthSame, hubVars, LeavesRegistry, Elsewhere
  <1>4. CASE \/ WriteError(c) \/ GoQuiet(c) \/ CodeExpires(c) \/ ReaperClose(c)
    <2>1. Keep /\ UNCHANGED <<clients, devId>>
      BY <1>4 DEF WriteError, GoQuiet, CodeExpires, ReaperClose, AuthSame, hubVars
    <2> QED BY <1>1, <2>1, KeepMoves, LeavesRegistryStep DEF LeavesRegistry
  <1> QED BY <1>2, <1>3, <1>4

LEMMA ShareRegistry ==
  ASSUME Typed, Registry, ShareNext
  PROVE  Registry'
  <1>1. UNCHANGED <<clients, devId, pc, arg>>
    BY DEF ShareNext, WebShareCreate, WebShareRevoke, WebShareList, WebShareExpires, WebPage,
       Keep, AuthSame, connVars
  <1> QED BY <1>1 DEF Registry, Decided

LEMMA WebRegistry ==
  ASSUME Typed, Registry, WebNext
  PROVE  Registry'
  <1>1. PICK p \in Peers :
          \/ \E t \in Tokens : WebOpen(p, t)
          \/ WebHandle(p)
          \/ \E s \in SessionIds : WebSessionClose(p, s) \/ \E kind \in Kinds : WebForward(p, kind, s)
          \/ WebReadError(p)
    BY DEF WebNext
  <1>2. p \in Actors
    BY ActorsOf
  <1>3. UNCHANGED <<clients, devId>>
    BY <1>1 DEF WebOpen, WebHandle, WebSessionClose, WebForward, WebReadError, WebCheck, WebLookup,
       WebInsert, WebLeave, UnregisterWebPeer, ForgetParty, RequestStore, StorePendingRequest,
       RequestSent, RequestNotSent, ForwardTarget, ForwardDeliver, CloseSession, AuthSame,
       connOnly, connVars, hubVars
  <1>4. Moves(p, Elsewhere)
    <2>1. CASE (\E t \in Tokens : WebOpen(p, t)) \/ WebCheck(p) \/ WebInsert(p) \/ WebReadError(p)
      BY <1>2, <2>1, StepElsewhere DEF WebOpen, WebCheck, WebInsert, WebReadError, Elsewhere, WebPCs
    <2>2. CASE WebLookup(p) \/ WebLeave(p)
      BY <1>2, <2>2, StepElsewhere, GotoElsewhere DEF WebLookup, WebLeave, Elsewhere, WebPCs
    <2>3. CASE RequestStore(p) \/ RequestSent(p, "idle") \/ RequestNotSent(p, "leaving")
      BY <1>2, <2>3, StepElsewhere, GotoElsewhere DEF RequestStore, RequestSent, RequestNotSent,
         Elsewhere, WebPCs
    <2>4. CASE ForwardTarget(p, "idle") \/ ForwardDeliver(p, "idle")
      BY <1>2, <2>4, GotoElsewhere DEF ForwardTarget, ForwardDeliver, Elsewhere
    <2>5. CASE \E s \in SessionIds : WebSessionClose(p, s) \/ \E kind \in Kinds : WebForward(p, kind, s)
      BY <1>2, <2>5, GotoElsewhere, KeepMoves DEF WebSessionClose, WebForward, Elsewhere, connVars, Keep
    <2> QED BY <1>1, <2>1, <2>2, <2>3, <2>4, <2>5 DEF WebHandle
  <1> QED BY <1>2, <1>3, <1>4, LeavesRegistryStep DEF LeavesRegistry

LEMMA RegistryStep == Typed /\ Registry /\ [Next]_vars => Registry'
  <1> SUFFICES ASSUME Typed, Registry, [Next]_vars PROVE Registry'
    OBVIOUS
  <1>1. CASE ConnNext
    BY <1>1, ScanRegistry, MessageRegistry, HandleRegistry, RegisterBeginRegistry,
       LifecycleRegistry DEF ConnNext, Reaper
  <1>2. CASE UNCHANGED vars
    BY <1>2 DEF vars, hubVars, connVars, Registry, Decided
  <1> QED BY <1>1, <1>2, ShareRegistry, WebRegistry DEF Next

LEMMA RegistryAlways == Spec => []Registry
  <1>1. Init => Registry
    BY DEF Init, HubInit, ConnInit, Registry, Decided, Actors
  <1> QED BY <1>1, RegistryStep, TypedAlways, PTL DEF Spec

-----------------------------------------------------------------------------
(* Capacity.                                                               *)

\* The devices that hold a place in s.clients.
Placed == {d \in Devices : clients[d] # None}

\* A place in s.clients is only ever changed by a registration and by the
\* end of a close().
LEMMA EveryPlace ==
  ASSUME Typed, [Next]_vars
  PROVE  UNCHANGED clients \/ \E c \in Conns : RegisterInsert(c) \/ CloseUnregister(c)
  <1>1. CASE Reaper
    BY <1>1 DEF Reaper, ReaperScan, ReaperClose, hubVars
  <1>2. ASSUME NEW c \in Conns, Message(c) PROVE UNCHANGED clients
    BY <1>2 DEF Message, AuthCodePublish, SessionRequest, SessionConfirm, SessionClose, Forward,
       CloseSession, hubVars
  <1>3. ASSUME NEW c \in Conns, Handle(c) PROVE UNCHANGED clients \/ RegisterInsert(c)
    BY <1>3 DEF Handle, RegisterRefused, EvictClose, EvictReturn, RequestAuth,
       RequestStore, StorePendingRequest, RequestSent, RequestNotSent, ConfirmConsume,
       ConsumePendingRequest, ConfirmCreate, CreateSession, ReadyToController, ReadyToControlled,
       ForwardRoute, ForwardTarget, ForwardDeliver, hubVars
  <1>4. ASSUME NEW c \in Conns, RegisterBegin(c) \/ ReadError(c) \/ WriteError(c)
                                \/ GoQuiet(c) \/ CodeExpires(c)
        PROVE UNCHANGED clients
    BY <1>4 DEF RegisterBegin, ReadError, WriteError, GoQuiet, CodeExpires, hubVars
  <1>5. CASE ShareNext
    BY <1>5 DEF ShareNext, WebShareCreate, WebShareRevoke, WebShareList, WebShareExpires, WebPage
  <1>6. ASSUME NEW p \in Peers, WebHandle(p) PROVE UNCHANGED clients
    BY <1>6 DEF WebHandle, WebCheck, WebLookup, WebInsert, WebLeave, UnregisterWebPeer,
       ForgetParty, RequestStore, StorePendingRequest, RequestSent, RequestNotSent,
       ForwardTarget, ForwardDeliver, hubVars
  <1>7. ASSUME NEW p \in Peers,
               \/ (\E t \in Tokens : WebOpen(p, t)) \/ WebReadError(p)
               \/ \E s \in SessionIds :
                    WebSessionClose(p, s) \/ \E kind \in Kinds : WebForward(p, kind, s)
        PROVE UNCHANGED clients
    BY <1>7 DEF WebOpen, WebSessionClose, CloseSession, WebForward, WebReadError, hubVars
  <1>8. CASE UNCHANGED vars
    BY <1>8 DEF vars, hubVars
  <1> QED BY <1>1, <1>2, <1>3, <1>4, <1>5, <1>6, <1>7, <1>8 DEF Next, ConnNext, WebNext

\* Only RegisterInsert gives a device a place.
LEMMA EveryRegistration ==
  ASSUME Typed, [Next]_vars
  PROVE  Placed' \subseteq Placed \/ \E c \in Conns : RegisterInsert(c)
  <1>1. ASSUME UNCHANGED clients PROVE Placed' \subseteq Placed
    BY <1>1 DEF Placed
  <1>2. ASSUME NEW c \in Conns, CloseUnregister(c) PROVE Placed' \subseteq Placed
    <2>1. \A d \in Devices : clients'[d] \in {None, clients[d]}
      BY <1>2, UnregisterPlaces
    <2> QED BY <2>1 DEF Placed
  <1> QED BY <1>1, <1>2, EveryPlace

\* There are only finitely many registered devices, and never too many.
Capacity == IsFiniteSet(Placed) /\ WithinCapacity

LEMMA CapacityStep ==
  ASSUME Typed, Capacity, [Next]_vars
  PROVE  Capacity'
  <1>1. WithinCapacity' <=> (MaxClients > 0 => Cardinality(Placed') <= MaxClients)
    BY DEF WithinCapacity, Placed
  <1>2. CASE Placed' \subseteq Placed
    <2>1. IsFiniteSet(Placed') /\ Cardinality(Placed') <= Cardinality(Placed)
      BY <1>2, FS_Subset DEF Capacity
    <2>2. Cardinality(Placed) \in Nat /\ Cardinality(Placed') \in Nat
      BY <2>1, FS_CardinalityType DEF Capacity
    <2>3. MaxClients > 0 => Cardinality(Placed) <= MaxClients
      BY DEF Capacity, WithinCapacity, Placed
    <2> QED BY <1>1, <2>1, <2>2, <2>3 DEF Capacity
  <1>3. ASSUME NEW c \in Conns, RegisterInsert(c) PROVE Capacity'
    <2>1. devId[c] \in Devices /\ clients' = [clients EXCEPT ![devId[c]] = c]
      BY <1>3, ActorsOf DEF RegisterInsert, Insert, Typed, Places
    <2>2. Placed' = Placed \cup {devId[c]}
      BY <1>3, <2>1 DEF Placed, Typed, TypeOK, HubTypeOK
    <2>3. /\ IsFiniteSet(Placed')
          /\ Cardinality(Placed') \in {Cardinality(Placed), Cardinality(Placed) + 1}
      BY <2>2, FS_AddElement DEF Capacity
    <2>4. Cardinality(Placed) \in Nat
      BY FS_CardinalityType DEF Capacity
    <2>5. MaxClients > 0 => ~(Cardinality(Placed) >= MaxClients)
      BY <1>3 DEF RegisterInsert, Full, Placed
    <2> QED BY <1>1, <2>3, <2>4, <2>5 DEF Capacity
  <1> QED BY <1>2, <1>3, EveryRegistration

\* However registrations, replacements and refusals interleave, no more
\* than max_clients devices are registered.
THEOREM CapacityKept == Spec => []WithinCapacity
  <1>1. Init => Capacity
    <2> SUFFICES ASSUME Init PROVE Capacity
      OBVIOUS
    <2>1. Placed = {}
      BY DEF Init, HubInit, Placed
    <2>2. IsFiniteSet(Placed) /\ Cardinality(Placed) = 0
      BY <2>1, FS_EmptySet
    <2> QED BY <2>2 DEF Capacity, WithinCapacity, Placed
  <1>2. Capacity => WithinCapacity
    BY DEF Capacity
  <1> QED BY <1>1, <1>2, CapacityStep, TypedAlways, PTL DEF Spec

-----------------------------------------------------------------------------
(* Sessions and who is online.  Every step changes them as one step of     *)
(* SessionAuthority does, or not at all.                                   *)

OnlineSet == {x \in Parties : Online(x)}

Same     == OnlineSet' = OnlineSet /\ UNCHANGED <<sess, live>>
Join(x)  == OnlineSet' = OnlineSet \cup {x} /\ UNCHANGED <<sess, live>>
Leave(x) == /\ OnlineSet' \in {OnlineSet, OnlineSet \ {x}}
            /\ live' = live \ SessionsOf(x)
            /\ UNCHANGED sess
Grant(s, t) ==
  /\ sess[s] = NoSession /\ {t.ctl, t.dev} \subseteq OnlineSet
  /\ t.input => t.mode = "view-control"
  /\ sess' = [sess EXCEPT ![s] = t]
  /\ live' = live \cup {s}
  /\ OnlineSet' = OnlineSet
End(s)   == live' = live \ {s} /\ OnlineSet' = OnlineSet /\ UNCHANGED sess

Terms == [ctl: Parties, dev: Parties, mode: Modes, input: BOOLEAN]

AuthorityStep ==
  \/ Same
  \/ \E x \in Parties : Join(x) \/ Leave(x)
  \/ \E s \in SessionIds : End(s) \/ \E t \in Terms : Grant(s, t)

LEMMA SameSessions ==
  ASSUME UNCHANGED <<clients, webPeers, sess, live>>
  PROVE  AuthorityStep
  BY DEF AuthorityStep, Same, OnlineSet, Online

LEMMA InsertJoins ==
  ASSUME Typed, NEW c \in Conns, RegisterInsert(c)
  PROVE  AuthorityStep
  <1>1. devId[c] \in Devices /\ devId[c] \in Parties
    BY ActorsOf DEF RegisterInsert, Typed, Places
  <1>2. /\ clients' = [clients EXCEPT ![devId[c]] = c]
        /\ UNCHANGED <<webPeers, sess, live>>
    BY DEF RegisterInsert, Insert
  <1>3. \A d \in Devices : clients'[d] # None <=> clients[d] # None \/ d = devId[c]
    BY <1>1, <1>2 DEF Typed, TypeOK, HubTypeOK
  <1>4. Join(devId[c])
    BY <1>1, <1>2, <1>3 DEF Join, OnlineSet, Online
  <1> QED BY <1>1, <1>4 DEF AuthorityStep

LEMMA UnregisterLeaves ==
  ASSUME Typed, NEW c \in Conns, CloseUnregister(c)
  PROVE  AuthorityStep
  <1> DEFINE d == devId[c]
  <1>1. CASE d = None
    BY <1>1, SameSessions DEF CloseUnregister, hubVars
  <1>2. CASE d # None
    <2>1. d \in Devices /\ d \in Parties
      BY <1>2, ActorsOf DEF Typed, TypeOK, ConnTypeOK
    <2>2. /\ clients' = [clients EXCEPT ![d] = IF @ = c THEN None ELSE @]
          /\ live' = live \ SessionsOf(d)
          /\ UNCHANGED <<webPeers, sess>>
      BY <1>2 DEF CloseUnregister, Unregister, ForgetParty
    <2> HIDE DEF d
    <2>3. Leave(d)
      BY <2>1, <2>2 DEF Leave, OnlineSet, Online, Typed, TypeOK, HubTypeOK
    <2> QED BY <2>1, <2>3 DEF AuthorityStep
  <1> QED BY <1>1, <1>2

LEMMA VisitorJoins ==
  ASSUME Typed, NEW p \in Peers, WebInsert(p)
  PROVE  AuthorityStep
  <1>1. Join(p)
    BY ActorsOf DEF WebInsert, Join, OnlineSet, Online
  <1> QED BY <1>1, ActorsOf DEF AuthorityStep

LEMMA VisitorLeaves ==
  ASSUME Typed, NEW p \in Peers, WebLeave(p)
  PROVE  AuthorityStep
  <1>1. Leave(p)
    BY ActorsOf DEF WebLeave, UnregisterWebPeer, ForgetParty, Leave, OnlineSet, Online
  <1> QED BY <1>1, ActorsOf DEF AuthorityStep

LEMMA CloseEnds ==
  ASSUME NEW s \in SessionIds, CloseSession(s)
  PROVE  AuthorityStep
  BY DEF CloseSession, AuthorityStep, End, OnlineSet, Online

LEMMA ConfirmGrants ==
  ASSUME Typed, NEW c \in Conns, NEW s \in SessionIds, ConfirmCreate(c, s)
  PROVE  AuthorityStep
  <1> DEFINE t == [ctl |-> arg[c].to, dev |-> devId[c],
                   mode |-> NormalizeSessionMode(arg[c].mode),
                   input |-> arg[c].input /\ SessionModeAllowsInput(arg[c].mode)]
  <1>1. CASE UNCHANGED hubVars
    BY <1>1, SameSessions DEF hubVars
  <1>2. CASE Online(arg[c].to) /\ clients[devId[c]] # None
    <2>1. devId[c] \in Devices /\ arg[c] \in Arg /\ sess[s] = NoSession
      BY ActorsOf DEF ConfirmCreate, Unused, Typed, Places, TypeOK, ConnTypeOK
    <2>2. arg[c].to \in OnlineSet /\ devId[c] \in OnlineSet
      BY <1>2, <2>1, ActorsOf DEF OnlineSet, Online, Typed, TypeOK, HubTypeOK
    <2>3. t \in Terms /\ (t.input => t.mode = "view-control")
      BY <2>1, <2>2 DEF Terms, OnlineSet, Arg, Modes, NormalizeSessionMode, SessionModeAllowsInput
    <2>4. /\ sess' = [sess EXCEPT ![s] = t] /\ live' = live \cup {s}
          /\ UNCHANGED <<clients, webPeers>>
      BY <1>2 DEF ConfirmCreate, CreateSession
    <2>5. t.ctl = arg[c].to /\ t.dev = devId[c]
      OBVIOUS
    <2> HIDE DEF t
    <2>6. Grant(s, t)
      BY <2>1, <2>2, <2>3, <2>4, <2>5 DEF Grant, OnlineSet, Online
    <2> QED BY <2>3, <2>6 DEF AuthorityStep
  <1> QED BY <1>1, <1>2 DEF ConfirmCreate

LEMMA ConnAuthority ==
  ASSUME Typed, ConnNext
  PROVE  AuthorityStep
  <1>1. CASE Reaper
    BY <1>1, SameSessions DEF Reaper, ReaperScan, ReaperClose, hubVars
  <1>2. ASSUME NEW c \in Conns, Message(c) PROVE AuthorityStep
    BY <1>2, SameSessions, CloseEnds DEF Message, AuthCodePublish, SessionRequest,
       SessionConfirm, SessionClose, Forward, hubVars
  <1>3. ASSUME NEW c \in Conns, Handle(c) PROVE AuthorityStep
    <2>1. CASE RegisterInsert(c) \/ \E s \in SessionIds : ConfirmCreate(c, s)
      BY <2>1, InsertJoins, ConfirmGrants
    <2>2. CASE RegisterRefused(c) \/ EvictClose(c) \/ EvictReturn(c)
      BY <2>2, SameSessions DEF RegisterRefused, EvictClose, EvictReturn, hubVars
    <2>3. CASE RequestAuth(c) \/ RequestStore(c) \/ RequestSent(c, "idle") \/ RequestNotSent(c, "idle")
      BY <2>3, SameSessions DEF RequestAuth, RequestStore, StorePendingRequest, RequestSent,
         RequestNotSent, hubVars
    <2>4. CASE ConfirmConsume(c) \/ ReadyToController(c) \/ ReadyToControlled(c)
      BY <2>4, SameSessions DEF ConfirmConsume, ConsumePendingRequest, ReadyToController,
         ReadyToControlled
    <2>5. CASE ForwardRoute(c) \/ ForwardTarget(c, "idle") \/ ForwardDeliver(c, "idle")
      BY <2>5, SameSessions DEF ForwardRoute, ForwardTarget, ForwardDeliver, hubVars
    <2> QED BY <1>3, <2>1, <2>2, <2>3, <2>4, <2>5 DEF Handle
  <1>4. ASSUME NEW c \in Conns, CloseUnregister(c) PROVE AuthorityStep
    BY <1>4, UnregisterLeaves
  <1>5. ASSUME NEW c \in Conns,
               \/ RegisterBegin(c) \/ ReadError(c) \/ WriteError(c)
               \/ GoQuiet(c) \/ CodeExpires(c)
        PROVE AuthorityStep
    BY <1>5, SameSessions DEF RegisterBegin, ReadError, WriteError, GoQuiet, CodeExpires, hubVars
  <1> QED BY <1>1, <1>2, <1>3, <1>4, <1>5 DEF ConnNext

LEMMA WebAuthority ==
  ASSUME Typed, WebNext
  PROVE  AuthorityStep
  <1>1. ASSUME NEW p \in Peers, NEW t \in Tokens, WebOpen(p, t) PROVE AuthorityStep
    BY <1>1, SameSessions DEF WebOpen, hubVars
  <1>2. ASSUME NEW p \in Peers, WebHandle(p) PROVE AuthorityStep
    <2>1. CASE WebInsert(p) \/ WebLeave(p)
      BY <2>1, VisitorJoins, VisitorLeaves
    <2>2. CASE WebCheck(p) \/ WebLookup(p)
      BY <2>2, SameSessions DEF WebCheck, WebLookup, hubVars
    <2>3. CASE \/ RequestStore(p) \/ RequestSent(p, "idle") \/ RequestNotSent(p, "leaving")
               \/ ForwardTarget(p, "idle") \/ ForwardDeliver(p, "idle")
      BY <2>3, SameSessions DEF RequestStore, StorePendingRequest, RequestSent, RequestNotSent,
         ForwardTarget, ForwardDeliver, hubVars
    <2> QED BY <1>2, <2>1, <2>2, <2>3 DEF WebHandle
  <1>3. ASSUME NEW p \in Peers, NEW s \in SessionIds,
               \/ WebSessionClose(p, s) \/ WebReadError(p)
               \/ \E kind \in Kinds : WebForward(p, kind, s)
        PROVE AuthorityStep
    BY <1>3, SameSessions, CloseEnds DEF WebSessionClose, WebForward, WebReadError, hubVars
  <1>4. ASSUME NEW p \in Peers, WebReadError(p) PROVE AuthorityStep
    BY <1>4, SameSessions DEF WebReadError, hubVars
  <1> QED BY <1>1, <1>2, <1>3, <1>4 DEF WebNext

LEMMA EveryAuthorityStep == Typed /\ [Next]_vars => AuthorityStep
  <1> SUFFICES ASSUME Typed, [Next]_vars PROVE AuthorityStep
    OBVIOUS
  <1>1. CASE ShareNext
    BY <1>1, SameSessions DEF ShareNext, WebShareCreate, WebShareRevoke, WebShareList,
       WebShareExpires, WebPage
  <1>2. CASE UNCHANGED vars
    BY <1>2, SameSessions DEF vars, hubVars
  <1> QED BY <1>1, <1>2, ConnAuthority, WebAuthority DEF Next

-----------------------------------------------------------------------------
(* Sessions end with their parties.                                        *)

LEMMA PartiesOnlineStep ==
  ASSUME Typed, SessionPartiesOnline, AuthorityStep
  PROVE  SessionPartiesOnline'
  <1>1. SessionPartiesOnline <=> \A s \in live : {sess[s].ctl, sess[s].dev} \subseteq OnlineSet
    BY ActorsOf DEF SessionPartiesOnline, OnlineSet, Online, Typed, TypeOK, HubTypeOK
  <1> DEFINE P == \A s \in live : {sess[s].ctl, sess[s].dev} \subseteq OnlineSet
  <1>2. P' => SessionPartiesOnline'
    BY DEF SessionPartiesOnline, OnlineSet
  <1>3. CASE Same
    BY <1>1, <1>2, <1>3 DEF Same
  <1>4. ASSUME NEW x \in Parties, Join(x) PROVE SessionPartiesOnline'
    BY <1>1, <1>2, <1>4 DEF Join
  <1>5. ASSUME NEW x \in Parties, Leave(x) PROVE SessionPartiesOnline'
    BY <1>1, <1>2, <1>5 DEF Leave, SessionsOf
  <1>6. ASSUME NEW s \in SessionIds, End(s) PROVE SessionPartiesOnline'
    BY <1>1, <1>2, <1>6 DEF End
  <1>7. ASSUME NEW s \in SessionIds, NEW t \in Terms, Grant(s, t) PROVE SessionPartiesOnline'
    <2>1. \A r \in live' : {sess'[r].ctl, sess'[r].dev} \subseteq OnlineSet'
      BY <1>1, <1>7 DEF Grant, Typed, TypeOK, HubTypeOK
    <2> QED BY <1>2, <2>1
  <1> QED BY <1>3, <1>4, <1>5, <1>6, <1>7 DEF AuthorityStep

\* However many connections, visitors and handlers are in flight, a session
\* in s.sessions has both of its parties in s.clients or s.webPeers.
THEOREM SessionsHaveBothParties == Spec => []SessionPartiesOnline
  <1>1. Init => SessionPartiesOnline
    BY DEF Init, HubInit, SessionPartiesOnline
  <1>2. Typed /\ SessionPartiesOnline /\ [Next]_vars => SessionPartiesOnline'
    BY EveryAuthorityStep, PartiesOnlineStep
  <1> QED BY <1>1, <1>2, TypedAlways, PTL DEF Spec

-----------------------------------------------------------------------------
(* One actor moves at a time.                                              *)

\* Which actor moves.
Stays(x)     == pc'[x] = pc[x] /\ arg'[x] = arg[x]
OnlyMoves(x) == \A y \in Actors : y # x => Stays(y)

\* Places where the locals of a handler mean nothing (yet, or any more).
Parked == {"idle", "ended", "register", "evict", "check", "lookup", "leaving"}

\* The sections with which a handler takes up locals, or takes them further.
ConnWorks(c) ==
  \/ \E d \in Devices, mode \in WireModes, code \in Codes \cup {None} :
        SessionRequest(c, d, mode, code)
  \/ RequestAuth(c) \/ RequestStore(c)
  \/ \E ctl \in Parties, accepted, input \in BOOLEAN, mode \in WireModes :
        SessionConfirm(c, ctl, accepted, mode, input)
  \/ ConfirmConsume(c) \/ (\E s \in SessionIds : ConfirmCreate(c, s)) \/ ReadyToController(c)
  \/ \E s \in SessionIds, kind \in Kinds : Forward(c, kind, s)
  \/ ForwardRoute(c) \/ ForwardTarget(c, "idle")

WebWorks(p) ==
  \/ WebLookup(p) \/ WebInsert(p) \/ RequestStore(p)
  \/ \E s \in SessionIds, kind \in Kinds : WebForward(p, kind, s)
  \/ ForwardTarget(p, "idle")

Works(x) == (x \in Conns /\ ConnWorks(x)) \/ (x \in Peers /\ WebWorks(x))

AtMostOneMoves ==
  \/ \A x \in Actors : Stays(x)
  \/ \E x \in Actors : OnlyMoves(x) /\ (Stays(x) \/ pc'[x] \in Parked \/ Works(x))

LEMMA KeepStays ==
  ASSUME Keep
  PROVE  AtMostOneMoves
  BY DEF Keep, AtMostOneMoves, Stays

LEMMA GotoParks ==
  ASSUME Typed, NEW x \in Actors, NEW l \in Parked, Goto(x, l)
  PROVE  AtMostOneMoves
  BY DEF Goto, AtMostOneMoves, OnlyMoves, Stays, Typed, TypeOK, ConnTypeOK

LEMMA GotoWithParks ==
  ASSUME Typed, NEW x \in Actors, NEW l \in Parked, NEW a, GotoWith(x, l, a)
  PROVE  AtMostOneMoves
  BY GotoMoves DEF AtMostOneMoves, OnlyMoves, Stays

LEMMA MovesAlone ==
  ASSUME Typed, NEW x \in Actors
  PROVE  /\ Keep => OnlyMoves(x) /\ Stays(x)
         /\ \A l : Goto(x, l) => OnlyMoves(x) /\ pc'[x] = l
         /\ \A l, a : GotoWith(x, l, a) => OnlyMoves(x) /\ pc'[x] = l
  BY GotoMoves DEF Keep, Goto, OnlyMoves, Stays, Typed, TypeOK, ConnTypeOK

LEMMA ConnWorkMoves ==
  ASSUME Typed, NEW c \in Conns, ConnWorks(c)
  PROVE  OnlyMoves(c) /\ (Stays(c) \/ pc'[c] # "none")
  <1> DEFINE Moved == OnlyMoves(c) /\ (Stays(c) \/ pc'[c] # "none")
  <1>1. /\ Keep => Moved
        /\ \A l : l # "none" /\ Goto(c, l) => Moved
        /\ \A l, a : l # "none" /\ GotoWith(c, l, a) => Moved
    BY ActorsOf, MovesAlone
  <1> SUFFICES Moved
    OBVIOUS
  <1> HIDE DEF Moved
  <1>2. ASSUME NEW d \in Devices, NEW mode \in WireModes, NEW code \in Codes \cup {None},
               SessionRequest(c, d, mode, code)
        PROVE Moved
    BY <1>1, <1>2 DEF SessionRequest
  <1>3. CASE RequestAuth(c) \/ RequestStore(c) \/ ReadyToController(c)
    BY <1>1, <1>3 DEF RequestAuth, RequestStore, ReadyToController, Return
  <1>4. ASSUME NEW ctl \in Parties, NEW accepted, NEW input, NEW mode \in WireModes,
               SessionConfirm(c, ctl, accepted, mode, input)
        PROVE Moved
    BY <1>1, <1>4 DEF SessionConfirm
  <1>5. CASE ConfirmConsume(c)
    BY <1>1, <1>5 DEF ConfirmConsume, Return
  <1>6. ASSUME NEW s \in SessionIds, ConfirmCreate(c, s) PROVE Moved
    BY <1>1, <1>6 DEF ConfirmCreate, Return
  <1>7. ASSUME NEW s \in SessionIds, NEW kind \in Kinds, Forward(c, kind, s) PROVE Moved
    BY <1>1, <1>7 DEF Forward
  <1>8. CASE ForwardRoute(c)
    BY <1>1, <1>8 DEF ForwardRoute, Return
  <1>9. CASE ForwardTarget(c, "idle")
    BY <1>1, <1>9 DEF ForwardTarget
  <1> QED BY <1>2, <1>3, <1>4, <1>5, <1>6, <1>7, <1>8, <1>9 DEF ConnWorks

LEMMA WebWorkMoves ==
  ASSUME Typed, NEW p \in Peers, WebWorks(p)
  PROVE  OnlyMoves(p) /\ (Stays(p) \/ pc'[p] # "none")
  <1> DEFINE Moved == OnlyMoves(p) /\ (Stays(p) \/ pc'[p] # "none")
  <1>1. /\ Keep => Moved
        /\ \A l : l # "none" /\ Goto(p, l) => Moved
        /\ \A l, a : l # "none" /\ GotoWith(p, l, a) => Moved
    BY ActorsOf, MovesAlone
  <1> SUFFICES Moved
    OBVIOUS
  <1> HIDE DEF Moved
  <1>2. CASE WebLookup(p)
    BY <1>1, <1>2 DEF WebLookup
  <1>3. CASE WebInsert(p) \/ RequestStore(p)
    BY <1>1, <1>3 DEF WebInsert, RequestStore
  <1>4. ASSUME NEW s \in SessionIds, NEW kind \in Kinds, WebForward(p, kind, s) PROVE Moved
    BY <1>1, <1>4 DEF WebForward
  <1>5. CASE ForwardTarget(p, "idle")
    BY <1>1, <1>5 DEF ForwardTarget
  <1> QED BY <1>2, <1>3, <1>4, <1>5 DEF WebWorks

LEMMA ConnMoves ==
  ASSUME Typed, ConnNext
  PROVE  AtMostOneMoves
  <1>1. CASE Reaper
    BY <1>1, KeepStays DEF Reaper, ReaperScan, ReaperClose
  <1>2. ASSUME NEW c \in Conns, Message(c) \/ Handle(c) PROVE AtMostOneMoves
    <2>1. c \in Actors
      BY ActorsOf
    <2>2. CASE ConnWorks(c)
      <3>1. Works(c) /\ OnlyMoves(c)
        BY <1>2, <2>2, ConnWorkMoves DEF Works
      <3> QED BY <2>1, <3>1 DEF AtMostOneMoves
    <2>3. CASE \/ \E code \in Codes : AuthCodePublish(c, code)
               \/ \E s \in SessionIds : SessionClose(c, s)
               \/ EvictClose(c)
      BY <2>3, KeepStays DEF AuthCodePublish, SessionClose, EvictClose
    <2>4. CASE \/ RegisterRefused(c) \/ EvictReturn(c) \/ ReadyToControlled(c)
               \/ RequestSent(c, "idle") \/ RequestNotSent(c, "idle") \/ ForwardDeliver(c, "idle")
      BY <2>1, <2>4, GotoWithParks DEF RegisterRefused, EvictReturn, ReadyToControlled,
         RequestSent, RequestNotSent, ForwardDeliver, Return, Parked
    <2>5. CASE RegisterInsert(c)
      BY <2>1, <2>5, GotoWithParks DEF RegisterInsert, Return, Parked
    <2> QED BY <1>2, <2>2, <2>3, <2>4, <2>5 DEF Message, Handle, ConnWorks
  <1>3. ASSUME NEW c \in Conns, RegisterBegin(c) \/ ReadError(c) PROVE AtMostOneMoves
    BY <1>3, ActorsOf, GotoParks DEF RegisterBegin, ReadError, Parked
  <1>4. ASSUME NEW c \in Conns,
               WriteError(c) \/ CloseUnregister(c) \/ GoQuiet(c) \/ CodeExpires(c)
        PROVE AtMostOneMoves
    BY <1>4, KeepStays DEF WriteError, CloseUnregister, GoQuiet, CodeExpires
  <1> QED BY <1>1, <1>2, <1>3, <1>4 DEF ConnNext

LEMMA WebMoves ==
  ASSUME Typed, WebNext
  PROVE  AtMostOneMoves
  <1>1. PICK p \in Peers :
          \/ \E t \in Tokens : WebOpen(p, t)
          \/ WebHandle(p)
          \/ \E s \in SessionIds : WebSessionClose(p, s) \/ \E kind \in Kinds : WebForward(p, kind, s)
          \/ WebReadError(p)
    BY DEF WebNext
  <1>2. p \in Actors
    BY ActorsOf
  <1>3. CASE WebWorks(p)
    BY <1>2, <1>3, WebWorkMoves DEF AtMostOneMoves, Works
  <1>4. CASE (\E t \in Tokens : WebOpen(p, t)) \/ WebCheck(p) \/ WebReadError(p)
    BY <1>2, <1>4, GotoParks DEF WebOpen, WebCheck, WebReadError, Parked
  <1>5. CASE WebLeave(p) \/ RequestSent(p, "idle") \/ RequestNotSent(p, "leaving")
             \/ ForwardDeliver(p, "idle")
    BY <1>2, <1>5, GotoWithParks DEF WebLeave, RequestSent, RequestNotSent, ForwardDeliver, Parked
  <1>6. CASE \E s \in SessionIds : WebSessionClose(p, s)
    BY <1>6, KeepStays DEF WebSessionClose, connVars, Keep
  <1> QED BY <1>1, <1>3, <1>4, <1>5, <1>6 DEF WebHandle, WebWorks

LEMMA EveryMove == Typed /\ [Next]_vars => AtMostOneMoves
  <1> SUFFICES ASSUME Typed, [Next]_vars PROVE AtMostOneMoves
    OBVIOUS
  <1>1. CASE ShareNext
    BY <1>1, KeepStays DEF ShareNext, WebShareCreate, WebShareRevoke, WebShareList,
       WebShareExpires, WebPage, connVars, Keep
  <1>2. CASE UNCHANGED vars
    BY <1>2, KeepStays DEF vars, connVars, Keep
  <1> QED BY <1>1, <1>2, ConnMoves, WebMoves DEF Next

-----------------------------------------------------------------------------
(* What handlers rest on never changes again once it is there.             *)

IdsStay    == \A c \in Conns : devId[c] # None => devId'[c] = devId[c]
TermsStay  == \A s \in SessionIds : sess[s] # NoSession => sess'[s] = sess[s]
LinksStay  == \A t \in Tokens : share[t].st # "unused" =>
                share'[t].st # "unused" /\ share'[t].dev = share[t].dev
FollowStay == \A p \in Peers : shareOf[p] # None => shareOf'[p] = shareOf[p]
AskedStay  == \A c \in Conns : asked[c] \subseteq asked'[c]
StartsOnce == \A x \in Actors : pc[x] # "none" => pc'[x] # "none"

Fixed == IdsStay /\ TermsStay /\ LinksStay /\ FollowStay /\ AskedStay /\ StartsOnce

LEMMA BeginsFirst ==
  ASSUME Typed, NEW c \in Conns, RegisterBegin(c)
  PROVE  pc[c] = "idle" /\ devId[c] = None /\ pc'[c] = "register"
  BY ActorsOf DEF RegisterBegin, Read, Goto, Typed, TypeOK, ConnTypeOK

\* Only RegisterBegin sets the id of a connection.
LEMMA ConnIds ==
  ASSUME ConnNext
  PROVE  UNCHANGED devId \/ \E c \in Conns : RegisterBegin(c)
  <1>1. CASE Reaper
    BY <1>1 DEF Reaper, ReaperScan, ReaperClose, AuthSame
  <1>2. ASSUME NEW c \in Conns, Message(c) PROVE UNCHANGED devId
    BY <1>2 DEF Message, AuthCodePublish, SessionRequest, SessionConfirm, SessionClose, Forward, AuthSame
  <1>3. ASSUME NEW c \in Conns, Handle(c) PROVE UNCHANGED devId
    BY <1>3 DEF Handle, RegisterRefused, RegisterInsert, EvictClose, EvictReturn, RequestAuth,
       RequestStore, RequestSent, RequestNotSent, ConfirmConsume, ConfirmCreate,
       ReadyToController, ReadyToControlled, ForwardRoute, ForwardTarget, ForwardDeliver, AuthSame
  <1>4. ASSUME NEW c \in Conns, ReadError(c) \/ WriteError(c) \/ CloseUnregister(c) \/ GoQuiet(c)
                                \/ CodeExpires(c)
        PROVE UNCHANGED devId
    BY <1>4 DEF ReadError, WriteError, CloseUnregister, GoQuiet, CodeExpires, AuthSame
  <1> QED BY <1>1, <1>2, <1>3, <1>4 DEF ConnNext

LEMMA EveryId ==
  ASSUME [Next]_vars
  PROVE  UNCHANGED devId \/ \E c \in Conns : RegisterBegin(c)
  <1>1. CASE ShareNext
    BY <1>1 DEF ShareNext, WebShareCreate, WebShareRevoke, WebShareList, WebShareExpires, WebPage,
       AuthSame, connVars
  <1>2. CASE WebNext
    BY <1>2 DEF WebNext, WebHandle, WebOpen, WebCheck, WebLookup, WebInsert, WebLeave,
       RequestStore, RequestSent, RequestNotSent, ForwardTarget, ForwardDeliver, WebSessionClose,
       WebForward, WebReadError, AuthSame, connOnly, connVars
  <1>3. CASE UNCHANGED vars
    BY <1>3 DEF vars, connVars
  <1> QED BY <1>1, <1>2, <1>3, ConnIds DEF Next

\* Only the two RequestSent add to what a device was asked.
LEMMA EveryAsk ==
  ASSUME [Next]_vars
  PROVE  \/ UNCHANGED asked
         \/ \E c \in Conns : RequestSent(c, "idle")
         \/ \E p \in Peers : RequestSent(p, "idle") /\ UNCHANGED shareOf
  <1>1. CASE Reaper
    BY <1>1 DEF Reaper, ReaperScan, ReaperClose
  <1>2. ASSUME NEW c \in Conns, Message(c) PROVE UNCHANGED asked
    BY <1>2 DEF Message, AuthCodePublish, SessionRequest, SessionConfirm, SessionClose, Forward
  <1>3. ASSUME NEW c \in Conns, Handle(c) PROVE UNCHANGED asked \/ RequestSent(c, "idle")
    BY <1>3 DEF Handle, RegisterRefused, RegisterInsert, EvictClose, EvictReturn, RequestAuth,
       RequestStore, RequestNotSent, ConfirmConsume, ConfirmCreate,
       ReadyToController, ReadyToControlled, ForwardRoute, ForwardTarget, ForwardDeliver
  <1>4. ASSUME NEW c \in Conns, RegisterBegin(c) \/ ReadError(c) \/ WriteError(c)
                                \/ CloseUnregister(c) \/ GoQuiet(c) \/ CodeExpires(c)
        PROVE UNCHANGED asked
    BY <1>4 DEF RegisterBegin, ReadError, WriteError, CloseUnregister, GoQuiet, CodeExpires
  <1>5. CASE ShareNext
    BY <1>5 DEF ShareNext, WebShareCreate, WebShareRevoke, WebShareList, WebShareExpires, WebPage,
       connVars
  <1>6. ASSUME NEW p \in Peers, WebHandle(p)
        PROVE UNCHANGED asked \/ (RequestSent(p, "idle") /\ UNCHANGED shareOf)
    BY <1>6 DEF WebHandle, WebCheck, WebLookup, WebInsert, WebLeave,
       RequestStore, RequestNotSent, ForwardTarget, ForwardDeliver, connOnly
  <1>7. ASSUME NEW p \in Peers,
               \/ (\E t \in Tokens : WebOpen(p, t)) \/ WebReadError(p)
               \/ \E s \in SessionIds :
                    WebSessionClose(p, s) \/ \E kind \in Kinds : WebForward(p, kind, s)
        PROVE UNCHANGED asked
    BY <1>7 DEF WebOpen, WebSessionClose, WebForward, WebReadError, connOnly, connVars
  <1>8. CASE UNCHANGED vars
    BY <1>8 DEF vars, connVars
  <1> QED BY <1>1, <1>2, <1>3, <1>4, <1>5, <1>6, <1>7, <1>8 DEF Next, ConnNext, WebNext

\* Links are only made of unused tokens; everything else keeps their device.
LEMMA UnregisterLinks ==
  ASSUME Typed, NEW c \in Conns, CloseUnregister(c)
  PROVE  LinksStay
  <1>1. \/ UNCHANGED share
        \/ share' = [t \in Tokens |->
                 IF share[t].dev = devId[c] /\ share[t].st \in {"active", "expired"}
                 THEN [share[t] EXCEPT !.st = "revoked"] ELSE share[t]]
    BY DEF CloseUnregister, Unregister, hubVars
  <1> QED BY <1>1 DEF LinksStay, Typed, TypeOK, HubTypeOK, WebShare

LEMMA RemoveLinks ==
  ASSUME Typed, NEW T, Remove(T)
  PROVE  LinksStay
  BY DEF Remove, LinksStay, Typed, TypeOK, HubTypeOK, WebShare

LEMMA ShareLinks ==
  ASSUME Typed, ShareNext
  PROVE  LinksStay
  <1>1. ASSUME NEW c \in Conns, NEW t \in Tokens, NEW mode \in WireModes, WebShareCreate(c, t, mode)
        PROVE LinksStay
    BY <1>1 DEF WebShareCreate, LinksStay, Typed, TypeOK, HubTypeOK
  <1>2. ASSUME NEW c \in Conns, NEW t \in Tokens, WebShareRevoke(c, t)
        PROVE LinksStay
    BY <1>2 DEF WebShareRevoke, LinksStay, Typed, TypeOK, HubTypeOK, WebShare
  <1>3. ASSUME NEW t \in Tokens, WebShareExpires(t)
        PROVE LinksStay
    BY <1>3 DEF WebShareExpires, LinksStay, Typed, TypeOK, HubTypeOK, WebShare
  <1>4. ASSUME NEW c \in Conns, WebShareList(c)
        PROVE LinksStay
    BY <1>4, RemoveLinks DEF WebShareList
  <1>5. ASSUME NEW t \in Tokens, WebPage(t)
        PROVE LinksStay
    BY <1>5, RemoveLinks DEF WebPage
  <1> QED BY <1>1, <1>2, <1>3, <1>4, <1>5 DEF ShareNext

LEMMA EveryLink ==
  ASSUME Typed, [Next]_vars
  PROVE  LinksStay
  <1>1. ASSUME UNCHANGED share PROVE LinksStay
    BY <1>1 DEF LinksStay
  <1>2. CASE Reaper
    BY <1>1, <1>2 DEF Reaper, ReaperScan, ReaperClose, hubVars
  <1>3. ASSUME NEW c \in Conns, Message(c) PROVE LinksStay
    BY <1>1, <1>3 DEF Message, AuthCodePublish, SessionRequest, SessionConfirm, SessionClose, Forward,
       CloseSession, hubVars
  <1>4. ASSUME NEW c \in Conns, Handle(c) PROVE UNCHANGED share
    BY <1>4 DEF Handle, RegisterRefused, RegisterInsert, Insert, EvictClose, EvictReturn, RequestAuth,
       RequestStore, StorePendingRequest, RequestSent, RequestNotSent, ConfirmConsume,
       ConsumePendingRequest, ConfirmCreate, CreateSession, ReadyToController, ReadyToControlled,
       ForwardRoute, ForwardTarget, ForwardDeliver, hubVars
  <1>5. ASSUME NEW c \in Conns, CloseUnregister(c) PROVE LinksStay
    BY <1>5, UnregisterLinks
  <1>6. ASSUME NEW c \in Conns, RegisterBegin(c) \/ ReadError(c) \/ WriteError(c)
                                \/ GoQuiet(c) \/ CodeExpires(c)
        PROVE LinksStay
    BY <1>1, <1>6 DEF RegisterBegin, ReadError, WriteError, GoQuiet, CodeExpires, hubVars
  <1>7. ASSUME NEW p \in Peers, WebHandle(p) PROVE LinksStay
    <2>1. CASE WebCheck(p)
      BY <2>1, RemoveLinks DEF WebCheck
    <2>2. CASE ~WebCheck(p)
      BY <1>1, <1>7, <2>2 DEF WebHandle, WebLookup, WebInsert, WebLeave, UnregisterWebPeer,
         RequestStore, StorePendingRequest, RequestSent, RequestNotSent, ForwardTarget,
         ForwardDeliver, hubVars
    <2> QED BY <2>1, <2>2
  <1>8. ASSUME NEW p \in Peers,
               \/ (\E t \in Tokens : WebOpen(p, t)) \/ WebReadError(p)
               \/ \E s \in SessionIds :
                    WebSessionClose(p, s) \/ \E kind \in Kinds : WebForward(p, kind, s)
        PROVE LinksStay
    BY <1>1, <1>8 DEF WebOpen, WebSessionClose, CloseSession, WebForward, WebReadError, hubVars
  <1>9. CASE UNCHANGED vars
    BY <1>1, <1>9 DEF vars, hubVars
  <1> QED BY <1>1, <1>2, <1>3, <1>4, <1>5, <1>6, <1>7, <1>8, <1>9, ShareLinks
          DEF Next, ConnNext, WebNext

\* A visitor follows the link it came with.
LEMMA EveryFollow ==
  ASSUME Typed, [Next]_vars
  PROVE  UNCHANGED shareOf \/ \E p \in Peers, t \in Tokens : WebOpen(p, t)
  <1>1. CASE ConnNext \/ UNCHANGED vars
    BY <1>1 DEF ConnNext, vars
  <1>2. CASE ShareNext
    BY <1>2 DEF ShareNext, WebShareCreate, WebShareRevoke, WebShareList, WebShareExpires, WebPage
  <1>3. CASE WebNext
    BY <1>3 DEF WebNext, WebHandle, WebCheck, WebLookup, WebInsert, WebLeave, WebSessionClose,
       WebForward, WebReadError
  <1> QED BY <1>1, <1>2, <1>3 DEF Next

LEMMA EverythingFixed ==
  ASSUME Typed, Identity, [Next]_vars
  PROVE  Fixed
  <1>1. IdsStay
    <2>1. ASSUME NEW c \in Conns, RegisterBegin(c) PROVE IdsStay
      <3>1. devId' = [devId EXCEPT ![c] = DeviceOf[c]] /\ devId[c] = None
        BY <2>1, BeginsFirst DEF RegisterBegin
      <3> QED BY <3>1 DEF IdsStay, Typed, TypeOK, ConnTypeOK
    <2> QED BY <2>1, EveryId DEF IdsStay
  <1>2. TermsStay
    BY EveryAuthorityStep DEF TermsStay, AuthorityStep, Same, Join, Leave, End, Grant, Typed,
       TypeOK, HubTypeOK
  <1>3. FollowStay
    <2>1. ASSUME NEW p \in Peers, NEW t \in Tokens, WebOpen(p, t) PROVE FollowStay
      BY <2>1 DEF WebOpen, FollowStay, Typed, Places, TypeOK, WebTypeOK
    <2> QED BY <2>1, EveryFollow DEF FollowStay
  <1>4. AskedStay
    BY EveryAsk DEF AskedStay, RequestSent, Typed, TypeOK, ConnTypeOK
  <1>5. StartsOnce
    BY EveryMove, ConnWorkMoves, WebWorkMoves DEF StartsOnce, AtMostOneMoves, OnlyMoves, Stays, Works, Parked
  <1> QED BY <1>1, <1>2, <1>3, <1>4, <1>5, EveryLink DEF Fixed

-----------------------------------------------------------------------------
(* What the locals of a handler mean, section by section.                  *)

LEMMA SelfStays ==
  ASSUME Typed, Fixed, NEW x \in Actors, Self(x) \in Parties
  PROVE  Self(x)' = Self(x)
  BY ActorsOf, ConstantsAssumption DEF Self, Fixed, IdsStay, Actors, Parties

\* Who forwards a message beyond the lookups is a party of its session.
LEMMA SenderIsParty ==
  ASSUME Typed, Held, NEW x \in Actors, pc[x] \in {"target", "deliver"}
  PROVE  Self(x) \in Parties
  BY ActorsOf DEF Held, Sound, MessageHeld, SessionTerms

LEMMA LinkStays ==
  ASSUME Typed, Fixed, NEW p \in Peers, pc[p] # "none"
  PROVE  /\ share'[shareOf'[p]].dev = share[shareOf[p]].dev
         /\ share[shareOf[p]].dev \in Devices
  BY DEF Typed, Places, Links, TypeOK, WebTypeOK, Fixed, FollowStay, LinksStay

LEMMA ConnIdStays ==
  ASSUME Typed, Fixed, NEW c \in Conns, devId[c] \in Devices
  PROVE  devId'[c] = devId[c]
  BY DEF Fixed, IdsStay

LEMMA StaysSound ==
  ASSUME Typed, Held, Fixed, NEW x \in Actors, Stays(x), Sound(x)
  PROVE  Sound(x)'
  <1>1. RequestHeld(x)'
    <2> SUFFICES ASSUME pc[x] \in {"auth", "insert", "store", "send"} PROVE RequestHeld(x)'
      BY DEF RequestHeld, Stays
    <2>1. /\ arg'[x].to = arg[x].to /\ arg'[x].conn = arg[x].conn
          /\ arg[x].to \in Devices /\ arg[x].conn \in Conns /\ devId[arg[x].conn] = arg[x].to
          /\ x \in Peers => arg[x].to = share[shareOf[x]].dev
      BY DEF Stays, Sound, RequestHeld
    <2>2. devId'[arg[x].conn] = arg[x].to
      BY <2>1, ConnIdStays
    <2> QED BY <2>1, <2>2, LinkStays DEF RequestHeld
  <1>2. ConfirmHeld(x)'
    <2>1. CASE pc[x] \in {"confirm", "create"}
      BY <2>1 DEF Stays, Sound, ConfirmHeld, AskedDevice, Fixed, AskedStay
    <2>2. CASE pc[x] \in {"readyCtl", "readyDev"}
      <3>1. x \in Conns /\ devId'[x] = devId[x]
        BY <2>2, ConnIdStays DEF Actors, Typed, Places, WebPCs
      <3> QED BY <2>2, <3>1 DEF Stays, Sound, ConfirmHeld, Fixed, TermsStay
    <2> QED BY <2>1, <2>2 DEF Stays, ConfirmHeld
  <1>3. MessageHeld(x)'
    <2> SUFFICES ASSUME pc[x] \in {"route", "target", "deliver"} PROVE MessageHeld(x)'
      BY DEF MessageHeld, Stays
    <2> DEFINE s == arg[x].sid
    <2>1. s \in SessionIds /\ sess[s] # NoSession /\ sess'[s] = sess[s]
      BY DEF Sound, MessageHeld, Fixed, TermsStay
    <2>2. /\ Self(x) = sess[s].ctl => Self(x)' = Self(x)
          /\ pc[x] \in {"target", "deliver"} => Self(x)' = Self(x)
      BY <2>1, SelfStays, SenderIsParty DEF Held, SessionTerms
    <2>3. pc[x] = "deliver" =>
            IF arg[x].to \in Devices
            THEN arg[x].conn \in Conns /\ devId'[arg[x].conn] = arg[x].to
            ELSE arg[x].conn = arg[x].to
      BY ConnIdStays DEF Sound, MessageHeld
    <2> QED BY <2>1, <2>2, <2>3 DEF Stays, Sound, MessageHeld
  <1> QED BY <1>1, <1>2, <1>3 DEF Sound

LEMMA ParkedSound ==
  ASSUME NEW x, pc'[x] \in Parked
  PROVE  Sound(x)'
  BY DEF Parked, Sound, RequestHeld, ConfirmHeld, MessageHeld

\* A handler that goes on with a request.
LEMMA RequestSound ==
  ASSUME NEW x, pc'[x] \in {"auth", "insert", "store", "send"},
         arg'[x].to \in Devices, arg'[x].conn \in Conns, devId'[arg'[x].conn] = arg'[x].to,
         x \in Peers => arg'[x].to = share'[shareOf'[x]].dev
  PROVE  Sound(x)'
  BY DEF Sound, RequestHeld, ConfirmHeld, MessageHeld

LEMMA RegisteredIds ==
  ASSUME Typed, Registry, NEW d \in Devices, clients[d] # None
  PROVE  clients[d] \in Conns /\ devId[clients[d]] = d
  BY DEF Registry, Typed, TypeOK, HubTypeOK

LEMMA KeepSound ==
  ASSUME Typed, Held, Fixed, Keep, NEW x \in Actors
  PROVE  Sound(x)'
  BY StaysSound DEF Held, Keep, Stays

LEMMA SessionRequestSound ==
  ASSUME Typed, Registry, Held, Fixed, NEW c \in Conns,
         NEW d \in Devices, NEW mode \in WireModes, NEW code \in Codes \cup {None},
         SessionRequest(c, d, mode, code)
  PROVE  Sound(c)'
  <1> DEFINE a == [NoArg EXCEPT !.to = d, !.conn = clients[d],
                                !.mode = NormalizeSessionMode(mode), !.code = code]
  <1>1. CASE Keep
    BY <1>1, KeepSound, ActorsOf
  <1>2. CASE GotoWith(c, "auth", a) /\ clients[d] # None
    <2>1. a.to = d /\ a.conn = clients[d]
      BY DEF NoArg
    <2> HIDE DEF a
    <2>2. pc'[c] = "auth" /\ arg'[c] = a
      BY <1>2, GotoMoves, ActorsOf
    <2>3. UNCHANGED devId
      BY DEF SessionRequest, AuthSame
    <2> QED BY <1>2, <2>1, <2>2, <2>3, RegisteredIds, RequestSound, ActorsOf
  <1> QED BY <1>1, <1>2 DEF SessionRequest

LEMMA RequestAuthSound ==
  ASSUME Typed, Held, Fixed, NEW c \in Conns, RequestAuth(c)
  PROVE  Sound(c)'
  <1>1. /\ arg[c].to \in Devices /\ arg[c].conn \in Conns /\ devId[arg[c].conn] = arg[c].to
        /\ UNCHANGED devId /\ c \in Actors /\ c \notin Peers /\ arg[c] \in Arg
    BY ActorsOf DEF RequestAuth, Held, Sound, RequestHeld, Typed, TypeOK, ConnTypeOK
  <1>2. CASE Return(c)
    BY <1>1, <1>2, GotoMoves, ParkedSound DEF Return, Parked
  <1>3. CASE Goto(c, "store")
    <2>1. pc'[c] = "store" /\ arg'[c] = arg[c]
      BY <1>1, <1>3 DEF Goto, Typed, TypeOK, ConnTypeOK
    <2> QED BY <1>1, <2>1, RequestSound
  <1>4. CASE GotoWith(c, "store", [arg[c] EXCEPT !.code = None])
    <2> DEFINE a == [arg[c] EXCEPT !.code = None]
    <2>1. a.to = arg[c].to /\ a.conn = arg[c].conn
      BY <1>1 DEF Arg
    <2>2. GotoWith(c, "store", a)
      BY <1>4
    <2> HIDE DEF a
    <2>3. pc'[c] = "store" /\ arg'[c] = a
      BY <1>1, <2>2, GotoMoves
    <2> QED BY <1>1, <2>1, <2>3, RequestSound
  <1> QED BY <1>2, <1>3, <1>4 DEF RequestAuth

LEMMA RequestStoreSound ==
  ASSUME Typed, Held, Fixed, NEW x \in Actors, RequestStore(x)
  PROVE  Sound(x)'
  <1>1. pc[x] = "store" /\ pc'[x] = "send" /\ arg'[x] = arg[x] /\ UNCHANGED devId
    BY DEF RequestStore, Goto, AuthSame, Typed, TypeOK, ConnTypeOK
  <1>2. /\ arg[x].to \in Devices /\ arg[x].conn \in Conns /\ devId[arg[x].conn] = arg[x].to
        /\ x \in Peers => arg[x].to = share[shareOf[x]].dev
    BY <1>1 DEF Held, Sound, RequestHeld
  <1> QED BY <1>1, <1>2, LinkStays, RequestSound

LEMMA WebLookupSound ==
  ASSUME Typed, Registry, Held, Fixed, NEW p \in Peers, WebLookup(p)
  PROVE  Sound(p)'
  <1> DEFINE dev == share[shareOf[p]].dev
             a == [NoArg EXCEPT !.to = dev, !.conn = clients[dev], !.mode = share[shareOf[p]].mode]
  <1>1. p \in Actors /\ pc[p] # "none" /\ UNCHANGED devId
    BY ActorsOf DEF WebLookup, connOnly
  <1>2. dev \in Devices /\ share'[shareOf'[p]].dev = dev
    BY <1>1, LinkStays
  <1>3. CASE Goto(p, "leaving")
    <2>1. pc'[p] = "leaving"
      BY <1>1, <1>3 DEF Goto, Typed, TypeOK, ConnTypeOK
    <2> QED BY <2>1, ParkedSound DEF Parked
  <1>4. CASE GotoWith(p, "insert", a) /\ clients[dev] # None
    <2>1. a.to = dev /\ a.conn = clients[dev]
      BY DEF NoArg
    <2> HIDE DEF a
    <2>2. pc'[p] = "insert" /\ arg'[p] = a
      BY <1>1, <1>4, GotoMoves
    <2> QED BY <1>1, <1>2, <1>4, <2>1, <2>2, RegisteredIds, RequestSound
  <1> QED BY <1>3, <1>4 DEF WebLookup

LEMMA WebInsertSound ==
  ASSUME Typed, Held, Fixed, NEW p \in Peers, WebInsert(p)
  PROVE  Sound(p)'
  <1>1. /\ p \in Actors /\ pc[p] = "insert" /\ pc'[p] = "store" /\ arg'[p] = arg[p]
        /\ UNCHANGED devId
    BY ActorsOf DEF WebInsert, Goto, connOnly, Typed, TypeOK, ConnTypeOK
  <1>2. /\ arg[p].to \in Devices /\ arg[p].conn \in Conns /\ devId[arg[p].conn] = arg[p].to
        /\ arg[p].to = share[shareOf[p]].dev
    BY <1>1 DEF Held, Sound, RequestHeld
  <1> QED BY <1>1, <1>2, LinkStays, RequestSound

\* A handler that goes on with a confirmation.
LEMMA SessionConfirmSound ==
  ASSUME Typed, Held, Fixed, NEW c \in Conns, NEW ctl \in Parties, NEW accepted \in BOOLEAN,
         NEW mode \in WireModes, NEW input \in BOOLEAN,
         SessionConfirm(c, ctl, accepted, mode, input)
  PROVE  Sound(c)'
  <1> DEFINE a == [NoArg EXCEPT !.to = ctl, !.ok = accepted,
                                !.mode = NormalizeSessionMode(mode), !.input = input]
  <1>1. AskedDevice(c, ctl) /\ UNCHANGED asked
    BY DEF SessionConfirm
  <1>2. CASE Keep
    BY <1>2, KeepSound, ActorsOf
  <1>3. CASE GotoWith(c, "confirm", a)
    <2>1. a.to = ctl
      BY DEF NoArg
    <2> HIDE DEF a
    <2>2. pc'[c] = "confirm" /\ arg'[c] = a
      BY <1>3, GotoMoves, ActorsOf
    <2> QED BY <1>1, <2>1, <2>2 DEF Sound, RequestHeld, ConfirmHeld, MessageHeld, AskedDevice
  <1> QED BY <1>2, <1>3 DEF SessionConfirm

LEMMA ConfirmConsumeSound ==
  ASSUME Typed, Held, Fixed, NEW c \in Conns, ConfirmConsume(c)
  PROVE  Sound(c)'
  <1>1. AskedDevice(c, arg[c].to) /\ UNCHANGED asked /\ c \in Actors /\ arg[c] \in Arg
    BY ActorsOf DEF ConfirmConsume, Held, Sound, ConfirmHeld, Typed, TypeOK, ConnTypeOK
  <1>2. CASE Return(c)
    BY <1>1, <1>2, GotoMoves, ParkedSound DEF Return, Parked
  <1>3. ASSUME NEW m, NEW i, GotoWith(c, "create", [arg[c] EXCEPT !.mode = m, !.input = i])
        PROVE Sound(c)'
    <2> DEFINE a == [arg[c] EXCEPT !.mode = m, !.input = i]
    <2>1. a.to = arg[c].to
      BY <1>1 DEF Arg
    <2>2. GotoWith(c, "create", a)
      BY <1>3
    <2> HIDE DEF a
    <2>3. pc'[c] = "create" /\ arg'[c] = a
      BY <1>1, <2>2, GotoMoves
    <2> QED BY <1>1, <2>1, <2>3 DEF Sound, RequestHeld, ConfirmHeld, MessageHeld, AskedDevice
  <1> QED BY <1>2, <1>3 DEF ConfirmConsume

LEMMA ConfirmCreateSound ==
  ASSUME Typed, Held, Fixed, NEW c \in Conns, NEW s \in SessionIds, ConfirmCreate(c, s)
  PROVE  Sound(c)'
  <1>1. c \in Actors /\ arg[c] \in Arg /\ devId[c] \in Devices /\ UNCHANGED devId
    BY ActorsOf DEF ConfirmCreate, AuthSame, Typed, Places, TypeOK, ConnTypeOK
  <1>2. CASE Return(c)
    BY <1>1, <1>2, GotoMoves, ParkedSound DEF Return, Parked
  <1>3. CASE /\ CreateSession(s, arg[c].to, devId[c], arg[c].mode, arg[c].input)
             /\ GotoWith(c, "readyCtl", [arg[c] EXCEPT !.sid = s])
    <2> DEFINE a == [arg[c] EXCEPT !.sid = s]
    <2>1. a.to = arg[c].to /\ a.sid = s
      BY <1>1 DEF Arg
    <2>2. GotoWith(c, "readyCtl", a)
      BY <1>3
    <2> HIDE DEF a
    <2>3. pc'[c] = "readyCtl" /\ arg'[c] = a
      BY <1>1, <2>2, GotoMoves
    <2>4. sess'[s].ctl = arg[c].to /\ sess'[s].dev = devId[c] /\ sess'[s] # NoSession
      BY <1>1, <1>3 DEF CreateSession, NoSession, Typed, TypeOK, HubTypeOK
    <2> QED BY <1>1, <2>1, <2>3, <2>4 DEF Sound, RequestHeld, ConfirmHeld, MessageHeld
  <1> QED BY <1>2, <1>3 DEF ConfirmCreate

LEMMA ReadyToControllerSound ==
  ASSUME Typed, Held, Fixed, NEW c \in Conns, ReadyToController(c)
  PROVE  Sound(c)'
  <1>1. /\ c \in Actors /\ pc[c] = "readyCtl" /\ pc'[c] = "readyDev" /\ arg'[c] = arg[c]
        /\ UNCHANGED <<sess, devId>>
    BY ActorsOf DEF ReadyToController, Goto, AuthSame, Typed, TypeOK, ConnTypeOK
  <1> QED BY <1>1 DEF Held, Sound, RequestHeld, ConfirmHeld, MessageHeld

-----------------------------------------------------------------------------
\* A handler that goes on with a message.
LEMMA ForwardSound ==
  ASSUME Typed, Held, Fixed, NEW c \in Conns, NEW kind \in Kinds, NEW s \in SessionIds,
         Forward(c, kind, s)
  PROVE  Sound(c)'
  <1> DEFINE a == [NoArg EXCEPT !.kind = kind, !.sid = s]
  <1>1. c \in Actors /\ UNCHANGED <<devId, sess>> /\ sess[s] # NoSession
    BY ActorsOf DEF Forward, AuthSame, hubVars
  <1>2. CASE Keep
    BY <1>2, KeepSound, ActorsOf
  <1>3. CASE /\ GotoWith(c, "route", a)
             /\ \/ kind = "frame"
                \/ devId[c] = sess[s].ctl /\ (kind = "input" => sess[s].input)
    <2>1. a.kind = kind /\ a.sid = s
      BY DEF NoArg
    <2> HIDE DEF a
    <2>2. pc'[c] = "route" /\ arg'[c] = a
      BY <1>1, <1>3, GotoMoves
    <2>3. Self(c)' = devId[c]
      BY <1>1 DEF Self
    <2> QED BY <1>1, <1>3, <2>1, <2>2, <2>3 DEF Sound, RequestHeld, ConfirmHeld, MessageHeld
  <1> QED BY <1>2, <1>3 DEF Forward

LEMMA ForwardRouteSound ==
  ASSUME Typed, Held, Fixed, NEW c \in Conns, ForwardRoute(c)
  PROVE  Sound(c)'
  <1> DEFINE s == arg[c].sid
  <1>1. /\ c \in Actors /\ UNCHANGED <<devId, sess>> /\ arg[c] \in Arg
        /\ s \in SessionIds /\ sess[s] # NoSession
        /\ arg[c].kind = "input" => sess[s].input
        /\ arg[c].kind \in {"input", "control"} => devId[c] = sess[s].ctl
    BY ActorsOf DEF ForwardRoute, AuthSame, hubVars, Held, Sound, MessageHeld, Self, Typed,
       TypeOK, ConnTypeOK
  <1>2. CASE Return(c)
    BY <1>1, <1>2, GotoMoves, ParkedSound DEF Return, Parked
  <1>3. ASSUME NEW to, GotoWith(c, "target", [arg[c] EXCEPT !.to = to]),
               \/ devId[c] = sess[s].ctl /\ to = sess[s].dev
               \/ devId[c] = sess[s].dev /\ to = sess[s].ctl /\ devId[c] # sess[s].ctl
        PROVE Sound(c)'
    <2> DEFINE a == [arg[c] EXCEPT !.to = to]
    <2>1. a.to = to /\ a.sid = s /\ a.kind = arg[c].kind
      BY <1>1 DEF Arg
    <2>2. GotoWith(c, "target", a)
      BY <1>3
    <2> HIDE DEF a
    <2>3. pc'[c] = "target" /\ arg'[c] = a
      BY <1>1, <2>2, GotoMoves
    <2>4. Self(c)' = devId[c]
      BY <1>1 DEF Self
    <2>5. arg[c].kind \in {"input", "control", "frame"}
      BY <1>1 DEF Arg, AllKinds
    <2> QED BY <1>1, <1>3, <2>1, <2>3, <2>4, <2>5 DEF Sound, RequestHeld, ConfirmHeld, MessageHeld
  <1> QED BY <1>2, <1>3 DEF ForwardRoute

LEMMA ForwardTargetSound ==
  ASSUME Typed, Registry, Held, Fixed, NEW x \in Actors, ForwardTarget(x, "idle")
  PROVE  Sound(x)'
  <1> DEFINE e == Endpoint(arg[x].to, clients, webPeers)
             s == arg[x].sid
             a == [arg[x] EXCEPT !.conn = e]
  <1>1. UNCHANGED <<devId, sess>> /\ arg[x] \in Arg /\ pc[x] = "target" /\ Self(x)' = Self(x)
    BY DEF ForwardTarget, AuthSame, hubVars, Self, Typed, TypeOK, ConnTypeOK
  <1>2. CASE GotoWith(x, "idle", NoArg)
    BY <1>2, GotoMoves, ParkedSound DEF Parked
  <1>3. CASE GotoWith(x, "deliver", a) /\ e # None
    <2>1. a.to = arg[x].to /\ a.sid = s /\ a.kind = arg[x].kind /\ a.conn = e
      BY <1>1 DEF Arg
    <2>2. IF a.to \in Devices THEN e \in Conns /\ devId[e] = a.to ELSE e = a.to
      BY <1>3, <2>1, RegisteredIds DEF Endpoint
    <2> HIDE DEF a, e
    <2>3. pc'[x] = "deliver" /\ arg'[x] = a
      BY <1>3, GotoMoves
    <2> QED BY <1>1, <2>1, <2>2, <2>3 DEF Held, Sound, RequestHeld, ConfirmHeld, MessageHeld
  <1> QED BY <1>2, <1>3 DEF ForwardTarget

LEMMA WebForwardSound ==
  ASSUME Typed, Held, Fixed, NEW p \in Peers, NEW kind \in Kinds, NEW s \in SessionIds,
         WebForward(p, kind, s)
  PROVE  Sound(p)'
  <1> DEFINE a == [NoArg EXCEPT !.kind = kind, !.sid = s, !.to = sess[s].dev]
  <1>1. p \in Actors /\ UNCHANGED sess /\ sess[s] # NoSession /\ Self(p)' = p
    BY ActorsOf DEF WebForward, hubVars, Self
  <1>2. CASE Keep
    BY <1>2, KeepSound, ActorsOf
  <1>3. CASE GotoWith(p, "target", a) /\ sess[s].ctl = p /\ (kind = "input" => sess[s].input)
    <2>1. a.kind = kind /\ a.sid = s /\ a.to = sess[s].dev
      BY DEF NoArg
    <2> HIDE DEF a
    <2>2. pc'[p] = "target" /\ arg'[p] = a
      BY <1>1, <1>3, GotoMoves
    <2> QED BY <1>1, <1>3, <2>1, <2>2 DEF Sound, RequestHeld, ConfirmHeld, MessageHeld
  <1> QED BY <1>2, <1>3 DEF WebForward

-----------------------------------------------------------------------------
LEMMA SoundStep ==
  ASSUME Typed, Registry, Held, Fixed, [Next]_vars
  PROVE  \A x \in Actors : Sound(x)'
  <1> USE DEF Held
  <1>1. CASE \A x \in Actors : Stays(x)
    BY <1>1, StaysSound
  <1>2. ASSUME NEW x \in Actors, OnlyMoves(x), Sound(x)'
        PROVE \A y \in Actors : Sound(y)'
    BY <1>2, StaysSound DEF OnlyMoves
  <1>3. ASSUME NEW c \in Conns, ConnWorks(c) PROVE Sound(c)'
    BY <1>3, ActorsOf, SessionRequestSound, RequestAuthSound, RequestStoreSound, SessionConfirmSound,
       ConfirmConsumeSound, ConfirmCreateSound, ReadyToControllerSound, ForwardSound,
       ForwardRouteSound, ForwardTargetSound DEF ConnWorks
  <1>4. ASSUME NEW p \in Peers, WebWorks(p) PROVE Sound(p)'
    BY <1>4, ActorsOf, WebLookupSound, WebInsertSound, RequestStoreSound, WebForwardSound,
       ForwardTargetSound DEF WebWorks
  <1>5. ASSUME NEW x \in Actors, Stays(x) \/ pc'[x] \in Parked \/ Works(x) PROVE Sound(x)'
    BY <1>3, <1>4, <1>5, StaysSound, ParkedSound DEF Works
  <1> QED BY <1>1, <1>2, <1>5, EveryMove DEF AtMostOneMoves

LEMMA IdentityStep ==
  ASSUME Typed, Identity, [Next]_vars
  PROVE  Identity'
  <1>1. CASE UNCHANGED devId
    BY <1>1 DEF Identity
  <1>2. ASSUME NEW c \in Conns, RegisterBegin(c) PROVE Identity'
    <2>1. devId' = [devId EXCEPT ![c] = DeviceOf[c]]
      BY <1>2 DEF RegisterBegin
    <2> QED BY <2>1 DEF Identity, Typed, TypeOK, ConnTypeOK
  <1> QED BY <1>1, <1>2, EveryId

LEMMA AskedByLinkStep ==
  ASSUME Typed, Held, Fixed, [Next]_vars
  PROVE  AskedByLink'
  <1>1. ASSUME NEW c \in Conns, NEW p \in Peers, p \in asked[c]
        PROVE  pc'[p] # "none" /\ devId'[c] = share'[shareOf'[p]].dev
    <2>1. pc[p] # "none" /\ devId[c] = share[shareOf[p]].dev
      BY <1>1 DEF Held, AskedByLink
    <2> QED BY <2>1, LinkStays, ConnIdStays, ActorsOf DEF Fixed, StartsOnce
  <1>2. CASE UNCHANGED asked
    BY <1>1, <1>2 DEF AskedByLink
  <1>3. ASSUME NEW x \in Actors, RequestSent(x, "idle") PROVE AskedByLink'
    <2>1. /\ pc[x] = "send" /\ arg[x].conn \in Conns /\ devId[arg[x].conn] = arg[x].to
          /\ x \in Peers => arg[x].to = share[shareOf[x]].dev
          /\ arg[x].to \in Devices
          /\ asked' = [asked EXCEPT ![arg[x].conn] = @ \cup {Self(x)}]
      BY <1>3 DEF RequestSent, Held, Sound, RequestHeld
    <2>2. Self(x) \in Peers => Self(x) = x /\ x \in Peers
      BY <2>1 DEF Self, Actors, Typed, Places
    <2>3. \A c \in Conns, p \in Peers : p \in asked'[c] =>
            p \in asked[c] \/ (p = x /\ c = arg[x].conn)
      BY <2>1, <2>2 DEF Typed, TypeOK, ConnTypeOK
    <2>4. x \in Peers => /\ pc'[x] # "none"
                         /\ devId'[arg[x].conn] = share'[shareOf'[x]].dev
      BY <2>1, LinkStays, ConnIdStays DEF Fixed, StartsOnce
    <2> QED BY <1>1, <2>3, <2>4 DEF AskedByLink
  <1> QED BY <1>2, <1>3, EveryAsk, ActorsOf

\* Only ConfirmCreate sets the terms of a session.
LEMMA EveryGrant ==
  ASSUME [Next]_vars
  PROVE  UNCHANGED sess \/ \E c \in Conns, s \in SessionIds : ConfirmCreate(c, s)
  <1>1. CASE Reaper
    BY <1>1 DEF Reaper, ReaperScan, ReaperClose, hubVars
  <1>2. ASSUME NEW c \in Conns, Message(c) PROVE UNCHANGED sess
    BY <1>2 DEF Message, AuthCodePublish, SessionRequest, SessionConfirm, SessionClose, Forward,
       CloseSession, hubVars
  <1>3. ASSUME NEW c \in Conns, Handle(c)
        PROVE UNCHANGED sess \/ \E s \in SessionIds : ConfirmCreate(c, s)
    BY <1>3 DEF Handle, RegisterRefused, RegisterInsert, Insert, EvictClose, EvictReturn,
       RequestAuth, RequestStore, StorePendingRequest, RequestSent, RequestNotSent,
       ConfirmConsume, ConsumePendingRequest, ReadyToController, ReadyToControlled,
       ForwardRoute, ForwardTarget, ForwardDeliver, hubVars
  <1>4. ASSUME NEW c \in Conns, RegisterBegin(c) \/ ReadError(c) \/ WriteError(c)
                                \/ CloseUnregister(c) \/ GoQuiet(c) \/ CodeExpires(c)
        PROVE UNCHANGED sess
    BY <1>4 DEF RegisterBegin, ReadError, WriteError, CloseUnregister, Unregister, ForgetParty,
       GoQuiet, CodeExpires, hubVars
  <1>5. CASE ShareNext
    BY <1>5 DEF ShareNext, WebShareCreate, WebShareRevoke, WebShareList, WebShareExpires, WebPage
  <1>6. ASSUME NEW p \in Peers, WebHandle(p) PROVE UNCHANGED sess
    BY <1>6 DEF WebHandle, WebCheck, WebLookup, WebInsert, WebLeave, UnregisterWebPeer,
       ForgetParty, RequestStore, StorePendingRequest, RequestSent, RequestNotSent,
       ForwardTarget, ForwardDeliver, hubVars
  <1>7. ASSUME NEW p \in Peers,
               \/ (\E t \in Tokens : WebOpen(p, t)) \/ WebReadError(p)
               \/ \E s \in SessionIds :
                    WebSessionClose(p, s) \/ \E kind \in Kinds : WebForward(p, kind, s)
        PROVE UNCHANGED sess
    BY <1>7 DEF WebOpen, WebSessionClose, CloseSession, WebForward, WebReadError, hubVars
  <1>8. CASE UNCHANGED vars
    BY <1>8 DEF vars, hubVars
  <1> QED BY <1>1, <1>2, <1>3, <1>4, <1>5, <1>6, <1>7, <1>8 DEF Next, ConnNext, WebNext

LEMMA SessionTermsStep ==
  ASSUME Typed, Held, Fixed, [Next]_vars
  PROVE  SessionTerms'
  <1> DEFINE TermsKept(s) ==
        /\ sess'[s].ctl \in Parties /\ sess'[s].dev \in Devices
        /\ sess'[s].input => sess'[s].mode = "view-control"
        /\ sess'[s].ctl \in Peers =>
             /\ pc'[sess'[s].ctl] # "none"
             /\ sess'[s].dev = share'[shareOf'[sess'[s].ctl]].dev
  <1>1. ASSUME NEW s \in SessionIds, sess[s] # NoSession
        PROVE  TermsKept(s)
    <2>1. sess'[s] = sess[s]
      BY <1>1 DEF Fixed, TermsStay
    <2>2. sess[s].ctl \in Peers => /\ pc[sess[s].ctl] # "none"
                                   /\ sess[s].dev = share[shareOf[sess[s].ctl]].dev
      BY <1>1 DEF Held, SessionTerms
    <2> QED BY <1>1, <2>1, <2>2, LinkStays, ActorsOf DEF Held, SessionTerms, Fixed, StartsOnce
  <1>2. ASSUME NEW c \in Conns, NEW s \in SessionIds, ConfirmCreate(c, s), ~UNCHANGED sess
        PROVE  /\ TermsKept(s)
               /\ \A r \in SessionIds : r # s => sess'[r] = sess[r]
    <2> DEFINE ctl == arg[c].to
    <2>1. /\ pc[c] = "create" /\ Online(ctl) /\ arg[c] \in Arg /\ c \in Actors
          /\ CreateSession(s, ctl, devId[c], arg[c].mode, arg[c].input)
      BY <1>2, ActorsOf DEF ConfirmCreate, hubVars, Typed, TypeOK, ConnTypeOK
    <2>2. /\ sess'[s].ctl = ctl /\ sess'[s].dev = devId[c]
          /\ sess'[s].input => sess'[s].mode = "view-control"
          /\ \A r \in SessionIds : r # s => sess'[r] = sess[r]
      BY <1>2, <2>1 DEF CreateSession, SessionModeAllowsInput, NormalizeSessionMode, Arg, Modes,
         Typed, TypeOK, HubTypeOK
    <2>3. ctl \in Parties /\ devId[c] \in Devices /\ devId[c] = DeviceOf[c]
      BY <1>2, <2>1, ActorsOf DEF Online, Held, Identity, Typed, Places, TypeOK, HubTypeOK
    <2>4. PICK o \in Conns : DeviceOf[o] = DeviceOf[c] /\ ctl \in asked[o]
      BY <1>2, <2>1 DEF Held, Sound, ConfirmHeld, AskedDevice
    <2>5. ctl \in Peers => pc[ctl] # "none" /\ devId[o] = share[shareOf[ctl]].dev
      BY <2>4 DEF Held, AskedByLink
    <2>6. ctl \in Peers => share[shareOf[ctl]].dev \in Devices /\ devId[o] = devId[c]
      BY <2>3, <2>4, <2>5, LinkStays DEF Held, Identity
    <2>7. ctl \in Peers => pc'[ctl] # "none" /\ devId[c] = share'[shareOf'[ctl]].dev
      BY <2>5, <2>6, LinkStays, ActorsOf DEF Fixed, StartsOnce
    <2> QED BY <2>2, <2>3, <2>7
  <1> HIDE DEF TermsKept
  <1>3. \A s \in SessionIds : sess'[s] # NoSession => TermsKept(s)
    BY <1>1, <1>2, EveryGrant
  <1> QED BY <1>3 DEF TermsKept, SessionTerms

LEMMA HeldStep == Typed /\ Typed' /\ Registry /\ Held /\ [Next]_vars => Held'
  BY EverythingFixed, IdentityStep, AskedByLinkStep, SessionTermsStep, SoundStep DEF Held

LEMMA HeldInit == Init => Held
  BY DEF Init, HubInit, ConnInit, Held, Identity, AskedByLink, SessionTerms, Sound,
     RequestHeld, ConfirmHeld, MessageHeld, Actors

LEMMA HeldAlways == Spec => []Held
  BY HeldInit, HeldStep, TypedAlways, RegistryAlways, PTL DEF Spec

\* Sections and links that opened the way to a session stay what they were
\* while it is granted.
THEOREM VisitorsKeepToTheirLink == Spec => []WebSessionBoundToShare
  <1>1. Typed /\ Held => WebSessionBoundToShare
    BY DEF WebSessionBoundToShare, Held, SessionTerms, NoSession
  <1> QED BY <1>1, TypedAlways, HeldAlways, PTL

\* However long a handler waits between looking a session up and queueing
\* the message, input goes from a granted controller to its device.
THEOREM InputOnlyAsGranted == Spec => []InputInFlightGranted
  <1>1. ASSUME Typed, Held, NEW x \in Actors, pc[x] = "deliver", arg[x].kind = "input"
        PROVE  LET s == arg[x].sid IN
               /\ sess[s].input /\ SessionModeAllowsInput(sess[s].mode)
               /\ Self(x) = sess[s].ctl
               /\ arg[x].conn \in Conns /\ devId[arg[x].conn] = sess[s].dev
    <2> DEFINE s == arg[x].sid
    <2>1. /\ s \in SessionIds /\ sess[s] # NoSession /\ sess[s].input
          /\ Self(x) = sess[s].ctl /\ arg[x].to = sess[s].dev
          /\ arg[x].to \in Devices => arg[x].conn \in Conns /\ devId[arg[x].conn] = arg[x].to
      BY <1>1 DEF Held, Sound, MessageHeld
    <2>2. sess[s].mode = "view-control" /\ sess[s].dev \in Devices
      BY <2>1, <1>1 DEF Held, SessionTerms
    <2> QED BY <2>1, <2>2 DEF SessionModeAllowsInput, NormalizeSessionMode
  <1>2. Typed /\ Held => InputInFlightGranted
    BY <1>1 DEF InputInFlightGranted
  <1> QED BY <1>2, TypedAlways, HeldAlways, PTL

\* What is about to be queued goes from one party of its session to the
\* other, whoever has registered, been evicted or left since the lookups.
THEOREM MessagesKeepToTheirSession == Spec => []MessagesStayInSession
  <1>1. ASSUME Typed, Held, NEW x \in Actors, pc[x] = "deliver"
        PROVE  LET s == sess[arg[x].sid]
                   from == Self(x)
                   to == Self(arg[x].conn)
               IN /\ \/ from = s.ctl /\ to = s.dev
                     \/ from = s.dev /\ to = s.ctl /\ arg[x].kind = "frame"
                  /\ arg[x].kind = "input" => s.input
    <2> DEFINE s == sess[arg[x].sid]
    <2>1. /\ arg[x].sid \in SessionIds /\ s # NoSession
          /\ arg[x].kind = "input" => s.input
          /\ \/ Self(x) = s.ctl /\ arg[x].to = s.dev
             \/ Self(x) = s.dev /\ arg[x].to = s.ctl /\ arg[x].kind = "frame"
      BY <1>1 DEF Held, Sound, MessageHeld
    <2>2. IF arg[x].to \in Devices
          THEN arg[x].conn \in Conns /\ devId[arg[x].conn] = arg[x].to
          ELSE arg[x].conn = arg[x].to
      BY <1>1 DEF Held, Sound, MessageHeld
    <2>3. arg[x].to \in Parties
      BY <1>1, <2>1 DEF Held, SessionTerms, Parties
    <2>4. Self(arg[x].conn) = arg[x].to
      <3>1. CASE arg[x].to \in Devices
        BY <2>2, <3>1 DEF Self
      <3>2. CASE arg[x].to \notin Devices
        BY <2>2, <2>3, <3>2, ConstantsAssumption DEF Self, Parties
      <3> QED BY <3>1, <3>2
    <2> QED BY <2>1, <2>4
  <1>2. Typed /\ Held => MessagesStayInSession
    BY <1>1 DEF MessagesStayInSession
  <1> QED BY <1>2, TypedAlways, HeldAlways, PTL

-----------------------------------------------------------------------------
(* Codes: each admits one request.                                         *)

\* The code that the request of x has used up.
UsedUp(x) == IF pc[x] \in {"store", "send"} THEN arg[x].code ELSE None

Publishes(c, code) ==
  /\ code # None /\ \A o \in Conns : authCode[o] # code
  /\ \A x \in Actors : UsedUp(x) # code /\ UsedUp(x)' = UsedUp(x)
  /\ authCode' = [authCode EXCEPT ![c] = code]

Uses(c, t) ==
  /\ UsedUp(c)' = authCode[t]
  /\ \A x \in Actors : x # c => UsedUp(x)' = UsedUp(x)
  /\ authCode' = [authCode EXCEPT ![t] = None]

NothingNew ==
  /\ \A x \in Actors : UsedUp(x)' \in {UsedUp(x), None}
  /\ \A c \in Conns : authCode'[c] \in {authCode[c], None}

CodeStep ==
  \/ NothingNew
  \/ \E c \in Conns, code \in Codes : Publishes(c, code)
  \/ \E c, t \in Conns : Uses(c, t)

OneHolder ==
  /\ \A x \in Actors : UsedUp(x) # None =>
       /\ \A c \in Conns : authCode[c] # UsedUp(x)
       /\ \A y \in Actors : UsedUp(y) = UsedUp(x) => x = y
  /\ \A a, b \in Conns : authCode[a] = authCode[b] /\ authCode[a] # None => a = b

LEMMA OneHolderStep ==
  ASSUME Typed, OneHolder, CodeStep
  PROVE  OneHolder'
  <1>1. authCode \in [Conns -> Codes \cup {None}]
    BY DEF Typed, TypeOK, ConnTypeOK
  <1>2. CASE NothingNew
    BY <1>1, <1>2 DEF OneHolder, NothingNew
  <1>3. ASSUME NEW c \in Conns, NEW code \in Codes, Publishes(c, code) PROVE OneHolder'
    BY <1>1, <1>3 DEF OneHolder, Publishes
  <1>4. ASSUME NEW c \in Conns, NEW t \in Conns, Uses(c, t) PROVE OneHolder'
    <2>1. \A o \in Conns : authCode'[o] = IF o = t THEN None ELSE authCode[o]
      BY <1>1, <1>4 DEF Uses
    <2>2. UsedUp(c)' = authCode[t] /\ \A x \in Actors : x # c => UsedUp(x)' = UsedUp(x)
      BY <1>4 DEF Uses
    <2>3. \A x \in Actors : UsedUp(x)' # None => \A o \in Conns : authCode'[o] # UsedUp(x)'
      BY <2>1, <2>2 DEF OneHolder
    <2>4. \A x, y \in Actors : UsedUp(x)' # None /\ UsedUp(y)' = UsedUp(x)' => x = y
      BY <2>2 DEF OneHolder
    <2>5. \A a, b \in Conns : authCode'[a] = authCode'[b] /\ authCode'[a] # None => a = b
      BY <2>1 DEF OneHolder
    <2> QED BY <2>3, <2>4, <2>5 DEF OneHolder
  <1> QED BY <1>2, <1>3, <1>4 DEF CodeStep

\* Only a publication and an accepted request change the codes.
LEMMA EveryCode ==
  ASSUME [Next]_vars
  PROVE  \/ UNCHANGED authCode
         \/ \E c \in Conns, code \in Codes : AuthCodePublish(c, code)
         \/ \E c \in Conns : RequestAuth(c)
  <1>1. CASE Reaper
    BY <1>1 DEF Reaper, ReaperScan, ReaperClose, AuthSame
  <1>2. ASSUME NEW c \in Conns, Message(c)
        PROVE UNCHANGED authCode \/ \E code \in Codes : AuthCodePublish(c, code)
    BY <1>2 DEF Message, SessionRequest, SessionConfirm, SessionClose, Forward, AuthSame
  <1>3. ASSUME NEW c \in Conns, Handle(c)
        PROVE UNCHANGED authCode \/ RequestAuth(c)
    BY <1>3 DEF Handle, RegisterRefused, RegisterInsert, EvictClose, EvictReturn,
       RequestStore, RequestSent, RequestNotSent, ConfirmConsume, ConfirmCreate,
       ReadyToController, ReadyToControlled, ForwardRoute, ForwardTarget, ForwardDeliver, AuthSame
  <1>4. ASSUME NEW c \in Conns, RegisterBegin(c) \/ ReadError(c) \/ WriteError(c)
                                \/ CloseUnregister(c) \/ GoQuiet(c) \/ CodeExpires(c)
        PROVE UNCHANGED authCode
    BY <1>4 DEF RegisterBegin, ReadError, WriteError, CloseUnregister, GoQuiet, CodeExpires, AuthSame
  <1>5. CASE ShareNext
    BY <1>5 DEF ShareNext, WebShareCreate, WebShareRevoke, WebShareList, WebShareExpires, WebPage,
       AuthSame, connVars
  <1>6. CASE WebNext
    BY <1>6 DEF WebNext, WebHandle, WebOpen, WebCheck, WebLookup, WebInsert, WebLeave,
       RequestStore, RequestSent, RequestNotSent, ForwardTarget, ForwardDeliver, WebSessionClose,
       WebForward, WebReadError, AuthSame, connOnly, connVars
  <1>7. CASE UNCHANGED vars
    BY <1>7 DEF vars, connVars
  <1> QED BY <1>1, <1>2, <1>3, <1>4, <1>5, <1>6, <1>7 DEF Next, ConnNext

\* Visitors ask without a code.
WithoutCode(p) == pc[p] \in {"insert", "store", "send"} => arg[p].code = None

LEMMA WebWorkCode ==
  ASSUME Typed, NEW p \in Peers, WithoutCode(p), WebWorks(p)
  PROVE  WithoutCode(p)'
  <1>1. p \in Actors
    BY ActorsOf
  <1>2. CASE WebLookup(p)
    <2> DEFINE dev == share[shareOf[p]].dev
               a == [NoArg EXCEPT !.to = dev, !.conn = clients[dev], !.mode = share[shareOf[p]].mode]
    <2>1. a.code = None
      BY DEF NoArg
    <2>2. Goto(p, "leaving") \/ GotoWith(p, "insert", a)
      BY <1>2 DEF WebLookup
    <2> HIDE DEF a
    <2> QED BY <1>1, <2>1, <2>2, GotoMoves, MovesAlone DEF WithoutCode
  <1>3. CASE WebInsert(p) \/ RequestStore(p)
    BY <1>1, <1>3 DEF WebInsert, RequestStore, Goto, WithoutCode
  <1>4. ASSUME NEW s \in SessionIds, NEW kind \in Kinds, WebForward(p, kind, s)
        PROVE  WithoutCode(p)'
    <2>1. Keep \/ pc'[p] = "target"
      BY <1>1, <1>4, GotoMoves DEF WebForward
    <2> QED BY <2>1 DEF Keep, WithoutCode
  <1>5. CASE ForwardTarget(p, "idle")
    <2>1. pc'[p] \in {"idle", "deliver"}
      BY <1>1, <1>5, GotoMoves DEF ForwardTarget
    <2> QED BY <2>1 DEF WithoutCode
  <1> QED BY <1>2, <1>3, <1>4, <1>5 DEF WebWorks

\* A handler of a connection uses a code up in RequestAuth only.
LEMMA ConnWorkCode ==
  ASSUME Typed, NEW c \in Conns, ConnWorks(c), ~RequestAuth(c)
  PROVE  UsedUp(c)' \in {UsedUp(c), None}
  <1>1. c \in Actors
    BY ActorsOf
  <1> DEFINE Fine == Stays(c) \/ pc'[c] \notin {"store", "send"}
  <1>2. /\ Keep => Fine
        /\ \A l : l \notin {"store", "send"} /\ Goto(c, l) => Fine
        /\ \A l, a : l \notin {"store", "send"} /\ GotoWith(c, l, a) => Fine
    BY <1>1, MovesAlone
  <1>3. Fine => UsedUp(c)' \in {UsedUp(c), None}
    BY DEF UsedUp, Stays
  <1> HIDE DEF Fine
  <1>4. ASSUME NEW d \in Devices, NEW mode \in WireModes, NEW code \in Codes \cup {None},
               SessionRequest(c, d, mode, code)
        PROVE Fine
    BY <1>2, <1>4 DEF SessionRequest
  <1>5. CASE RequestStore(c)
    BY <1>1, <1>5 DEF RequestStore, Goto, UsedUp
  <1>6. ASSUME NEW ctl \in Parties, NEW accepted, NEW input, NEW mode \in WireModes,
               SessionConfirm(c, ctl, accepted, mode, input)
        PROVE Fine
    BY <1>2, <1>6 DEF SessionConfirm
  <1>7. CASE ConfirmConsume(c)
    BY <1>2, <1>3, <1>7 DEF ConfirmConsume, Return
  <1>8. ASSUME NEW s \in SessionIds, ConfirmCreate(c, s) PROVE Fine
    BY <1>2, <1>8 DEF ConfirmCreate, Return
  <1>9. ASSUME NEW s \in SessionIds, NEW kind \in Kinds, Forward(c, kind, s) PROVE Fine
    BY <1>2, <1>9 DEF Forward
  <1>10. CASE ForwardRoute(c)
    BY <1>2, <1>3, <1>10 DEF ForwardRoute, Return
  <1>11. CASE ForwardTarget(c, "idle")
    BY <1>2, <1>3, <1>11 DEF ForwardTarget
  <1>12. CASE ReadyToController(c)
    BY <1>2, <1>3, <1>12 DEF ReadyToController
  <1> QED BY <1>3, <1>4, <1>5, <1>6, <1>7, <1>8, <1>9, <1>10, <1>11, <1>12 DEF ConnWorks

LEMMA RequestAuthCode ==
  ASSUME Typed, Held, NEW c \in Conns, RequestAuth(c)
  PROVE  CodeStep
  <1> DEFINE t == arg[c].conn
  <1>1. c \in Actors /\ t \in Conns /\ arg[c] \in Arg
    BY ActorsOf DEF RequestAuth, Held, Sound, RequestHeld, Typed, TypeOK, ConnTypeOK
  <1>2. \A x \in Actors : x # c => UsedUp(x)' = UsedUp(x)
    <2>1. OnlyMoves(c)
      BY ConnWorkMoves DEF ConnWorks
    <2> QED BY <2>1 DEF OnlyMoves, Stays, UsedUp
  <1>3. UsedUp(c) = None
    BY DEF RequestAuth, UsedUp
  <1>4. CASE UsedUp(c)' = None
    <2>1. authCode' = [authCode EXCEPT ![t] = None] \/ UNCHANGED authCode
      BY DEF RequestAuth
    <2> QED BY <1>2, <1>4, <2>1 DEF CodeStep, NothingNew, Typed, TypeOK, ConnTypeOK
  <1>5. CASE UsedUp(c)' # None
    <2>1. ~Return(c)
      BY <1>1, <1>5, GotoMoves DEF Return, UsedUp
    <2>2. ~GotoWith(c, "store", [arg[c] EXCEPT !.code = None])
      <3> DEFINE a == [arg[c] EXCEPT !.code = None]
      <3>1. a.code = None
        BY <1>1 DEF Arg
      <3> HIDE DEF a
      <3>2. ~GotoWith(c, "store", a)
        BY <1>1, <1>5, <3>1, GotoMoves DEF UsedUp
      <3> QED BY <3>2 DEF a
    <2>3. /\ Goto(c, "store") /\ arg[c].code = authCode[t]
          /\ authCode' = [authCode EXCEPT ![t] = None]
      BY <2>1, <2>2 DEF RequestAuth
    <2>4. UsedUp(c)' = authCode[t]
      BY <1>1, <2>3 DEF UsedUp, Goto, Typed, TypeOK, ConnTypeOK
    <2> QED BY <1>1, <1>2, <2>3, <2>4 DEF CodeStep, Uses
  <1> QED BY <1>4, <1>5

LEMMA EveryCodeStep ==
  ASSUME Typed, Held, CodesInUse, [Next]_vars
  PROVE  CodeStep /\ \A p \in Peers : WithoutCode(p)'
  <1>1. \A x \in Actors : Stays(x) => UsedUp(x)' = UsedUp(x)
    BY DEF Stays, UsedUp
  <1>2. \A p \in Peers : WithoutCode(p) /\ (Stays(p) => WithoutCode(p)')
    BY DEF CodesInUse, WithoutCode, Stays
  <1>3. \A p \in Peers : WithoutCode(p)' => UsedUp(p)' = None
    BY DEF WithoutCode, UsedUp
  <1>4. \A x : pc'[x] \in Parked => UsedUp(x)' = None /\ WithoutCode(x)'
    BY DEF Parked, UsedUp, WithoutCode
  <1>5. \A p \in Peers : WithoutCode(p)'
    <2>1. \A p \in Peers : Works(p) => WithoutCode(p)'
      BY <1>2, WebWorkCode, ActorsOf DEF Works
    <2>2. CASE \A x \in Actors : Stays(x)
      BY <1>2, <2>2, ActorsOf
    <2>3. ASSUME NEW x \in Actors, OnlyMoves(x), Stays(x) \/ pc'[x] \in Parked \/ Works(x)
          PROVE  \A p \in Peers : WithoutCode(p)'
      BY <1>2, <1>4, <2>1, <2>3, ActorsOf DEF OnlyMoves
    <2> QED BY <2>2, <2>3, EveryMove DEF AtMostOneMoves
  <1>6. CASE \E c \in Conns : RequestAuth(c)
    BY <1>5, <1>6, RequestAuthCode
  <1>7. ASSUME NEW c \in Conns, NEW code \in Codes, AuthCodePublish(c, code) PROVE CodeStep
    <2>1. /\ \A o \in Conns : authCode[o] # code
          /\ \A x \in Actors : arg[x].code # code
          /\ authCode' = [authCode EXCEPT ![c] = code] /\ UNCHANGED <<pc, arg>>
      BY <1>7 DEF AuthCodePublish, Keep
    <2> QED BY <2>1 DEF CodeStep, Publishes, UsedUp
  <1>8. CASE UNCHANGED authCode /\ ~\E c \in Conns : RequestAuth(c)
    <2>1. \A x \in Actors : Works(x) => UsedUp(x)' \in {UsedUp(x), None}
      BY <1>3, <1>5, <1>8, ConnWorkCode DEF Works
    <2>2. CASE \A x \in Actors : Stays(x)
      BY <1>1, <1>5, <1>8, <2>2 DEF CodeStep, NothingNew
    <2>3. ASSUME NEW x \in Actors, OnlyMoves(x), Stays(x) \/ pc'[x] \in Parked \/ Works(x)
          PROVE  \A y \in Actors : UsedUp(y)' \in {UsedUp(y), None}
      BY <1>1, <1>4, <2>1, <2>3 DEF OnlyMoves
    <2> QED BY <1>5, <1>8, <2>2, <2>3, EveryMove DEF AtMostOneMoves, CodeStep, NothingNew
  <1> QED BY <1>5, <1>6, <1>7, <1>8, EveryCode

LEMMA CodesInUseParts ==
  CodesInUse <=> OneHolder /\ \A p \in Peers : WithoutCode(p)
  <1>1. OneRequestPerCode <=> \A x \in Actors : UsedUp(x) # None =>
          /\ \A c \in Conns : authCode[c] # UsedUp(x)
          /\ \A y \in Actors : UsedUp(y) = UsedUp(x) => x = y
    BY DEF OneRequestPerCode, UsedUp
  <1> QED BY <1>1 DEF CodesInUse, OneHolder, WithoutCode

LEMMA CodesInUseAlways == Spec => []CodesInUse
  <1>1. Init => CodesInUse
    BY DEF Init, ConnInit, CodesInUse, OneRequestPerCode, Actors
  <1>2. Typed /\ Held /\ CodesInUse /\ [Next]_vars => CodesInUse'
    <2>1. Typed /\ CodesInUse /\ CodeStep => OneHolder'
      BY OneHolderStep, CodesInUseParts
    <2>2. OneHolder' /\ (\A p \in Peers : WithoutCode(p)') => CodesInUse'
      BY DEF OneHolder, UsedUp, CodesInUse, OneRequestPerCode, WithoutCode
    <2> QED BY <2>1, <2>2, EveryCodeStep
  <1> QED BY <1>1, <1>2, TypedAlways, HeldAlways, PTL DEF Spec

\* A code lets one request through, however many present it at once.
THEOREM CodeAdmitsOne == Spec => []OneRequestPerCode
  <1>1. CodesInUse => OneRequestPerCode
    BY DEF CodesInUse
  <1> QED BY <1>1, CodesInUseAlways, PTL

-----------------------------------------------------------------------------
(* Visitors: they come in once and leave nothing.                          *)

\* A handler of a connection moves no visitor.
LEMMA ConnMovesConn ==
  ASSUME Typed, ConnNext
  PROVE  \A p \in Peers : pc'[p] = pc[p]
  <1> DEFINE Aside == \A p \in Peers : pc'[p] = pc[p]
  <1>1. Keep => Aside
    BY DEF Keep
  <1>2. ASSUME NEW c \in Conns
        PROVE  /\ \A l : Goto(c, l) => Aside
               /\ \A l, a : GotoWith(c, l, a) => Aside
    BY <1>2, ActorsOf, MovesAlone DEF OnlyMoves, Stays
  <1> SUFFICES Aside
    OBVIOUS
  <1> HIDE DEF Aside
  <1>3. CASE Reaper
    BY <1>1, <1>3 DEF Reaper, ReaperScan, ReaperClose
  <1>4. ASSUME NEW c \in Conns, Message(c) PROVE Aside
    BY <1>1, <1>2, <1>4 DEF Message, AuthCodePublish, SessionRequest, SessionConfirm, SessionClose,
       Forward
  <1>5. ASSUME NEW c \in Conns, Handle(c) PROVE Aside
    <2>1. CASE RegisterRefused(c) \/ RegisterInsert(c) \/ EvictClose(c) \/ EvictReturn(c)
      BY <1>1, <1>2, <2>1 DEF RegisterRefused, RegisterInsert, EvictClose, EvictReturn, Return
    <2>2. CASE RequestAuth(c) \/ RequestStore(c) \/ RequestSent(c, "idle") \/ RequestNotSent(c, "idle")
      BY <1>2, <2>2 DEF RequestAuth, RequestStore, RequestSent, RequestNotSent, Return
    <2>3. CASE ConfirmConsume(c) \/ \E s \in SessionIds : ConfirmCreate(c, s)
      BY <1>2, <2>3 DEF ConfirmConsume, ConfirmCreate, Return
    <2>4. CASE \/ ReadyToController(c) \/ ReadyToControlled(c)
               \/ ForwardRoute(c) \/ ForwardTarget(c, "idle") \/ ForwardDeliver(c, "idle")
      BY <1>2, <2>4 DEF ReadyToController, ReadyToControlled, ForwardRoute, ForwardTarget,
         ForwardDeliver, Return
    <2> QED BY <1>5, <2>1, <2>2, <2>3, <2>4 DEF Handle
  <1>6. ASSUME NEW c \in Conns, RegisterBegin(c) \/ ReadError(c) \/ WriteError(c)
                                \/ CloseUnregister(c) \/ GoQuiet(c) \/ CodeExpires(c)
        PROVE Aside
    BY <1>1, <1>2, <1>6 DEF RegisterBegin, ReadError, WriteError, CloseUnregister, GoQuiet, CodeExpires
  <1> QED BY <1>3, <1>4, <1>5, <1>6 DEF ConnNext

\* No step admits a visitor but its own.
NoRequest(p) == \A d \in Devices : pending'[<<p, d>>] # None => pending[<<p, d>>] # None

Left(p) == p \notin webPeers' /\ \A d \in Devices : pending'[<<p, d>>] = None

StaysAdmitted(p) ==
  /\ pc[p] \in Admitted => pc'[p] \in Admitted
  /\ pc[p] = "store" => pc'[p] \in {"store", "send"}
  /\ p \in webPeers' => p \in webPeers \/ pc'[p] = "store"
  /\ NoRequest(p) \/ pc'[p] = "send"

LEMMA ConnRequests ==
  ASSUME Typed, Held, ConnNext
  PROVE  UNCHANGED webPeers /\ \A p \in Peers : NoRequest(p)
  <1> DEFINE Aside == UNCHANGED webPeers /\ \A p \in Peers : NoRequest(p)
  <1>1. UNCHANGED <<webPeers, pending>> => Aside
    BY DEF NoRequest
  <1>2. ASSUME NEW x, NEW cl, ForgetParty(x, cl, webPeers)
        PROVE  Aside
    <2>1. \A p \in Peers, d \in Devices : pending'[<<p, d>>] \in {None, pending[<<p, d>>]}
      BY <1>2, ActorsOf DEF ForgetParty
    <2> QED BY <1>2, <2>1 DEF ForgetParty, NoRequest
  <1>3. ASSUME NEW ctl, NEW dev, ConsumePendingRequest(ctl, dev)
        PROVE  Aside
    BY <1>3 DEF ConsumePendingRequest, NoRequest, Typed, TypeOK, HubTypeOK
  <1>4. ASSUME NEW c \in Conns, RequestStore(c)
        PROVE  Aside
    <2>1. Self(c) \notin Peers
      BY <1>4, ActorsOf DEF RequestStore, Self, Typed, Places
    <2>2. \A p \in Peers, d \in Devices : pending'[<<p, d>>] = pending[<<p, d>>]
      BY <1>4, <2>1 DEF RequestStore, StorePendingRequest, Typed, TypeOK, HubTypeOK
    <2> QED BY <1>4, <2>2 DEF RequestStore, StorePendingRequest, NoRequest
  <1> SUFFICES Aside
    OBVIOUS
  <1> HIDE DEF Aside
  <1>5. CASE Reaper
    BY <1>1, <1>5 DEF Reaper, ReaperScan, ReaperClose, hubVars
  <1>6. ASSUME NEW c \in Conns, Message(c) PROVE Aside
    BY <1>1, <1>6 DEF Message, AuthCodePublish, SessionRequest, SessionConfirm, SessionClose,
       Forward, CloseSession, hubVars
  <1>7. ASSUME NEW c \in Conns, Handle(c) PROVE Aside
    <2>1. CASE RequestStore(c) \/ ConfirmConsume(c)
      BY <1>3, <1>4, <2>1 DEF ConfirmConsume
    <2>2. CASE ~(RequestStore(c) \/ ConfirmConsume(c))
      BY <1>1, <1>7, <2>2 DEF Handle, RegisterRefused, RegisterInsert, Insert, EvictClose,
         EvictReturn, RequestAuth, RequestSent, RequestNotSent, ConfirmCreate, CreateSession,
         ReadyToController, ReadyToControlled, ForwardRoute, ForwardTarget, ForwardDeliver, hubVars
    <2> QED BY <2>1, <2>2
  <1>8. ASSUME NEW c \in Conns, CloseUnregister(c) PROVE Aside
    BY <1>1, <1>2, <1>8 DEF CloseUnregister, Unregister, hubVars
  <1>9. ASSUME NEW c \in Conns, RegisterBegin(c) \/ ReadError(c) \/ WriteError(c)
                                \/ GoQuiet(c) \/ CodeExpires(c)
        PROVE Aside
    BY <1>1, <1>9 DEF RegisterBegin, ReadError, WriteError, GoQuiet, CodeExpires, hubVars
  <1> QED BY <1>5, <1>6, <1>7, <1>8, <1>9 DEF ConnNext

\* The steps of visitor p: it is admitted, goes on, or leaves nothing.
LEMMA WebAdmission ==
  ASSUME Typed, Held, NEW p \in Peers,
         \/ \E t \in Tokens : WebOpen(p, t)
         \/ WebHandle(p)
         \/ \E s \in SessionIds : WebSessionClose(p, s) \/ \E kind \in Kinds : WebForward(p, kind, s)
         \/ WebReadError(p)
  PROVE  /\ OnlyMoves(p)
         /\ \A q \in Peers : q # p => NoRequest(q) /\ (q \in webPeers' => q \in webPeers)
         /\ Left(p) \/ StaysAdmitted(p)
  <1> DEFINE Aside == \A q \in Peers : q # p => NoRequest(q) /\ (q \in webPeers' => q \in webPeers)
             Goal  == OnlyMoves(p) /\ Aside /\ (Left(p) \/ StaysAdmitted(p))
  <1>1. p \in Actors
    BY ActorsOf
  <1>2. /\ Keep => OnlyMoves(p) /\ Stays(p)
        /\ \A l : Goto(p, l) => OnlyMoves(p) /\ pc'[p] = l
        /\ \A l, a : GotoWith(p, l, a) => OnlyMoves(p) /\ pc'[p] = l
    BY <1>1, MovesAlone
  <1>3. ASSUME UNCHANGED <<webPeers, pending>>
        PROVE  /\ Aside
               /\ \A l : pc'[p] = l /\ (pc[p] \in Admitted => l \in Admitted)
                                    /\ (pc[p] = "store" => l \in {"store", "send"})
                         => StaysAdmitted(p)
    BY <1>3 DEF NoRequest, StaysAdmitted
  <1>4. CASE (\E t \in Tokens : WebOpen(p, t)) \/ WebCheck(p) \/ WebLookup(p) \/ WebReadError(p)
    <2>1. UNCHANGED <<webPeers, pending>>
      BY <1>4 DEF WebOpen, WebCheck, WebLookup, WebReadError, hubVars
    <2>2. OnlyMoves(p) /\ (pc[p] \in {"none", "check", "lookup"} \/ (pc[p] = "idle" /\ pc'[p] = "leaving"))
      BY <1>2, <1>4 DEF WebOpen, WebCheck, WebLookup, WebReadError
    <2> QED BY <1>3, <2>1, <2>2 DEF Admitted
  <1>5. CASE WebInsert(p)
    <2>1. pc[p] = "insert" /\ pc'[p] = "store" /\ OnlyMoves(p)
      BY <1>2, <1>5 DEF WebInsert
    <2>2. webPeers' = webPeers \cup {p} /\ UNCHANGED pending
      BY <1>5 DEF WebInsert
    <2> QED BY <2>1, <2>2 DEF NoRequest, StaysAdmitted, Admitted
  <1>6. CASE WebLeave(p)
    <2>1. OnlyMoves(p) /\ webPeers' = webPeers \ {p}
      BY <1>2, <1>6 DEF WebLeave, UnregisterWebPeer, ForgetParty
    <2>2. \A q \in Peers, d \in Devices : pending'[<<q, d>>] \in {None, pending[<<q, d>>]}
      BY <1>6, ActorsOf DEF WebLeave, UnregisterWebPeer, ForgetParty
    <2>3. \A d \in Devices : pending'[<<p, d>>] = None
      BY <1>6, ActorsOf DEF WebLeave, UnregisterWebPeer, ForgetParty
    <2> QED BY <2>1, <2>2, <2>3 DEF NoRequest, Left
  <1>7. CASE RequestStore(p)
    <2>1. pc[p] = "store" /\ pc'[p] = "send" /\ OnlyMoves(p) /\ UNCHANGED webPeers /\ Self(p) = p
      BY <1>2, <1>7, ActorsOf DEF RequestStore, StorePendingRequest, Self
    <2>2. \A q \in Peers, d \in Devices : q # p => pending'[<<q, d>>] = pending[<<q, d>>]
      BY <1>7, <2>1 DEF RequestStore, StorePendingRequest, Typed, TypeOK, HubTypeOK
    <2> QED BY <2>1, <2>2 DEF NoRequest, StaysAdmitted, Admitted
  <1>8. CASE \/ RequestSent(p, "idle") \/ RequestNotSent(p, "leaving")
             \/ ForwardTarget(p, "idle") \/ ForwardDeliver(p, "idle")
    <2>1. UNCHANGED <<webPeers, pending>>
      BY <1>8 DEF RequestSent, RequestNotSent, ForwardTarget, ForwardDeliver, hubVars
    <2>2. OnlyMoves(p) /\ pc[p] # "store" /\ pc'[p] \in Admitted
      BY <1>2, <1>8 DEF RequestSent, RequestNotSent, ForwardTarget, ForwardDeliver, Admitted
    <2> QED BY <1>3, <2>1, <2>2
  <1>9. ASSUME NEW s \in SessionIds, NEW kind \in Kinds, WebForward(p, kind, s)
        PROVE  Goal
    <2>1. UNCHANGED <<webPeers, pending>>
      BY <1>9 DEF WebForward, hubVars
    <2>2. OnlyMoves(p) /\ pc[p] # "store" /\ pc'[p] \in Admitted
      BY <1>2, <1>9 DEF WebForward, Admitted, Stays
    <2> QED BY <1>3, <2>1, <2>2
  <1>10. ASSUME NEW s \in SessionIds, WebSessionClose(p, s)
         PROVE  Goal
    <2>1. UNCHANGED <<webPeers, pending>>
      BY <1>10 DEF WebSessionClose, CloseSession
    <2>2. OnlyMoves(p) /\ pc'[p] = pc[p]
      BY <1>2, <1>10 DEF WebSessionClose, connVars, Keep, Stays
    <2> QED BY <1>3, <2>1, <2>2
  <1> QED BY <1>4, <1>5, <1>6, <1>7, <1>8, <1>9, <1>10 DEF WebHandle

LEMMA AdmissionStep ==
  ASSUME Typed, Held, Admission, [Next]_vars
  PROVE  Admission'
  <1>1. ASSUME \A p \in Peers : Left(p) \/ StaysAdmitted(p)
        PROVE  Admission'
    <2>1. \A p \in Peers : p \in webPeers' => pc'[p] \in Admitted \cup {"store"}
      BY <1>1 DEF Admission, Left, StaysAdmitted, Admitted
    <2>2. \A p \in Peers, d \in Devices : pending'[<<p, d>>] # None => pc'[p] \in Admitted
      BY <1>1 DEF Admission, Left, StaysAdmitted, NoRequest, Admitted
    <2>3. webPeers' \subseteq Peers
      BY TypeStep DEF Typed, TypeOK, HubTypeOK
    <2> QED BY <2>1, <2>2, <2>3 DEF Admission
  <1>2. \A p \in Peers : /\ pc'[p] = pc[p] /\ NoRequest(p)
                         /\ p \in webPeers' => p \in webPeers
                         => StaysAdmitted(p)
    BY DEF StaysAdmitted
  <1>3. CASE ConnNext
    BY <1>1, <1>2, <1>3, ConnMovesConn, ConnRequests
  <1>4. CASE ShareNext \/ UNCHANGED vars
    <2>1. UNCHANGED <<pc, webPeers, pending>>
      BY <1>4 DEF ShareNext, WebShareCreate, WebShareRevoke, WebShareList, WebShareExpires,
         WebPage, Keep, connVars, hubVars, vars
    <2> QED BY <1>1, <1>2, <2>1 DEF NoRequest
  <1>5. CASE WebNext
    <2>1. PICK p \in Peers :
            /\ OnlyMoves(p)
            /\ \A q \in Peers : q # p => NoRequest(q) /\ (q \in webPeers' => q \in webPeers)
            /\ Left(p) \/ StaysAdmitted(p)
      BY <1>5, WebAdmission DEF WebNext
    <2>2. \A q \in Peers : q # p => StaysAdmitted(q)
      BY <1>2, <2>1, ActorsOf DEF OnlyMoves, Stays
    <2> QED BY <1>1, <2>1, <2>2
  <1> QED BY <1>3, <1>4, <1>5 DEF Next

LEMMA AdmissionAlways == Spec => []Admission
  <1>1. Init => Admission
    BY ActorsOf DEF Init, HubInit, Admission
  <1> QED BY <1>1, AdmissionStep, TypedAlways, HeldAlways, PTL DEF Spec

\* Wherever a visitor failed, once its goroutine is over no peer, pending
\* request or session is left of it, nor can one still be made for it.
THEOREM GoneVisitorsLeaveNothing == Spec => []VisitorLeavesNothing
  <1>1. ASSUME Typed, Held, Admission, SessionPartiesOnline
        PROVE  VisitorLeavesNothing
    <2> SUFFICES ASSUME NEW p \in Peers, pc[p] = "ended"
                 PROVE  /\ p \notin webPeers /\ SessionsOf(p) = {}
                        /\ \A d \in Devices : pending[<<p, d>>] = None
      BY DEF VisitorLeavesNothing
    <2>1. p \notin webPeers /\ \A d \in Devices : pending[<<p, d>>] = None
      BY <1>1 DEF Admission, Admitted
    <2>2. ~Online(p)
      BY <2>1 DEF Online
    <2> QED BY <1>1, <2>1, <2>2 DEF SessionPartiesOnline, SessionsOf
  <1> QED BY <1>1, TypedAlways, HeldAlways, AdmissionAlways, SessionsHaveBothParties, PTL

-----------------------------------------------------------------------------
(* Announcements: whoever was told that a session is ready, and is still   *)
(* there, hears of its end with the step that ends it.                     *)

\* What a step tells whom: nothing, a party that its session is ready, or
\* those who are left that sessions ended.
Calm == UNCHANGED told /\ live \subseteq live'

Due(x, s) ==
  /\ x \in Actors /\ s \in SessionIds
  /\ sess[s] # NoSession /\ Self(x) \in {sess[s].ctl, sess[s].dev}

Announces(x, s) == Due(x, s) /\ TellReady(x, s) /\ UNCHANGED live

Ends(S) ==
  /\ S \subseteq live
  /\ live' = live \ S
  /\ NotifySessionClosed(S, clients', webPeers')
  /\ \A d \in Devices : clients'[d] \in {None, clients[d]}

ToldStep ==
  \/ Calm
  \/ \E x \in Actors, s \in SessionIds : Announces(x, s)
  \/ \E S \in SUBSET SessionIds : Ends(S)

LEMMA CalmSteps ==
  ASSUME UNCHANGED <<told, live>>
  PROVE  ToldStep
  BY DEF ToldStep, Calm

LEMMA CloseTold ==
  ASSUME Typed, NEW s \in SessionIds, CloseSession(s)
  PROVE  ToldStep
  <1>1. UNCHANGED <<clients, webPeers>> /\ live' = live \ {s}
    BY DEF CloseSession
  <1>2. CASE s \in live
    <2>1. NotifySessionClosed({s}, clients', webPeers')
      BY <1>1, <1>2 DEF CloseSession
    <2>2. Ends({s})
      BY <1>1, <1>2, <2>1 DEF Ends
    <2> QED BY <2>2 DEF ToldStep
  <1>3. CASE s \notin live
    BY <1>1, <1>3, CalmSteps DEF CloseSession
  <1> QED BY <1>2, <1>3

LEMMA ForgetTold ==
  ASSUME Typed, NEW x, NEW cl, NEW wp, ForgetParty(x, cl, wp),
         \A d \in Devices : cl[d] \in {None, clients[d]}
  PROVE  ToldStep
  <1>1. /\ clients' = cl /\ webPeers' = wp
        /\ live' = live \ SessionsOf(x)
        /\ SessionsOf(x) \subseteq live /\ SessionsOf(x) \in SUBSET SessionIds
        /\ NotifySessionClosed(SessionsOf(x), clients', webPeers')
    BY DEF ForgetParty, SessionsOf, Typed, TypeOK, HubTypeOK
  <1>2. Ends(SessionsOf(x))
    BY <1>1 DEF Ends
  <1> QED BY <1>1, <1>2 DEF ToldStep

\* Endpoint finds a connection of the device, or the visitor itself.
LEMMA EndpointOf ==
  ASSUME Typed, Registry, NEW y \in Parties,
         NEW e, e = Endpoint(y, clients, webPeers), e # None
  PROVE  e \in Actors /\ Self(e) = y
  <1>1. CASE y \in Devices
    <2>1. e \in Conns /\ devId[e] = y
      BY <1>1, RegisteredIds DEF Endpoint
    <2> QED BY <2>1, ActorsOf DEF Self
  <1>2. CASE y \notin Devices
    <2>1. y \in Peers /\ e = y
      BY <1>2 DEF Endpoint, Parties
    <2> QED BY <2>1, ActorsOf DEF Self
  <1> QED BY <1>1, <1>2

LEMMA ReadyTold ==
  ASSUME Typed, Registry, Held, NEW c \in Conns,
         ReadyToController(c) \/ ReadyToControlled(c)
  PROVE  ToldStep
  <1> DEFINE s == arg[c].sid
             e == Endpoint(arg[c].to, clients, webPeers)
  <1>1. /\ s \in SessionIds /\ sess[s] # NoSession
        /\ sess[s].ctl = arg[c].to /\ sess[s].dev = devId[c]
        /\ sess[s].ctl \in Parties /\ c \in Actors
    BY ActorsOf DEF ReadyToController, ReadyToControlled, Held, Sound, ConfirmHeld, SessionTerms
  <1>2. UNCHANGED live
    BY DEF ReadyToController, ReadyToControlled
  <1>3. CASE ReadyToControlled(c)
    <2>1. Due(c, s)
      BY <1>1 DEF Due, Self
    <2> QED BY <1>1, <1>2, <1>3, <2>1 DEF ToldStep, Announces, ReadyToControlled
  <1>4. CASE ReadyToController(c) /\ e = None
    BY <1>2, <1>4, CalmSteps DEF ReadyToController
  <1>5. CASE ReadyToController(c) /\ e # None
    <2>1. e \in Actors /\ Self(e) = arg[c].to
      BY <1>1, <1>5, EndpointOf
    <2>2. Due(e, s)
      BY <1>1, <2>1 DEF Due
    <2>3. TellReady(e, s)
      BY <1>5 DEF ReadyToController
    <2> HIDE DEF e, s
    <2> QED BY <1>1, <1>2, <2>1, <2>2, <2>3 DEF ToldStep, Announces
  <1> QED BY <1>3, <1>4, <1>5

LEMMA EveryTold ==
  ASSUME Typed, Registry, Held, [Next]_vars
  PROVE  ToldStep
  <1>1. CASE Reaper
    BY <1>1, CalmSteps DEF Reaper, ReaperScan, ReaperClose, hubVars
  <1>2. ASSUME NEW c \in Conns, Message(c) PROVE ToldStep
    BY <1>2, CalmSteps, CloseTold DEF Message, AuthCodePublish, SessionRequest, SessionConfirm,
       SessionClose, Forward, hubVars
  <1>3. ASSUME NEW c \in Conns, Handle(c) PROVE ToldStep
    <2>1. CASE RegisterInsert(c)
      BY <2>1, CalmSteps DEF RegisterInsert, Insert
    <2>2. CASE ReadyToController(c) \/ ReadyToControlled(c)
      BY <2>2, ReadyTold
    <2>3. ASSUME NEW s \in SessionIds, ConfirmCreate(c, s) PROVE ToldStep
      BY <2>3 DEF ConfirmCreate, CreateSession, hubVars, ToldStep, Calm
    <2>4. CASE \/ RegisterRefused(c) \/ EvictClose(c) \/ EvictReturn(c)
               \/ RequestAuth(c) \/ RequestStore(c) \/ RequestSent(c, "idle")
               \/ RequestNotSent(c, "idle") \/ ConfirmConsume(c)
               \/ ForwardRoute(c) \/ ForwardTarget(c, "idle") \/ ForwardDeliver(c, "idle")
      <3>1. UNCHANGED <<told, live, clients, webPeers>>
        BY <2>4 DEF RegisterRefused, EvictClose, EvictReturn, RequestAuth,
           RequestStore, StorePendingRequest, RequestSent, RequestNotSent, ConfirmConsume,
           ConsumePendingRequest, ForwardRoute, ForwardTarget, ForwardDeliver, hubVars
      <3> QED BY <3>1, CalmSteps
    <2> QED BY <1>3, <2>1, <2>2, <2>3, <2>4 DEF Handle
  <1>4. ASSUME NEW c \in Conns, CloseUnregister(c) PROVE ToldStep
    <2> DEFINE d == devId[c]
               cl == [clients EXCEPT ![d] = IF @ = c THEN None ELSE @]
    <2>1. CASE d = None
      BY <1>4, <2>1, CalmSteps DEF CloseUnregister, hubVars
    <2>2. CASE d # None
      <3>1. ForgetParty(d, cl, webPeers)
        BY <1>4, <2>2 DEF CloseUnregister, Unregister
      <3>2. \A e \in Devices : cl[e] \in {None, clients[e]}
        BY DEF Typed, TypeOK, HubTypeOK
      <3> HIDE DEF cl, d
      <3> QED BY <3>1, <3>2, ForgetTold
    <2> QED BY <2>1, <2>2
  <1>5. ASSUME NEW c \in Conns, RegisterBegin(c) \/ ReadError(c) \/ WriteError(c)
                                \/ GoQuiet(c) \/ CodeExpires(c)
        PROVE ToldStep
    BY <1>5, CalmSteps DEF RegisterBegin, ReadError, WriteError, GoQuiet, CodeExpires, hubVars
  <1>6. CASE ShareNext
    BY <1>6, CalmSteps DEF ShareNext, WebShareCreate, WebShareRevoke, WebShareList,
       WebShareExpires, WebPage
  <1>7. ASSUME NEW p \in Peers, WebHandle(p) PROVE ToldStep
    <2>1. CASE WebInsert(p)
      BY <2>1 DEF WebInsert, ToldStep, Calm
    <2>2. CASE WebLeave(p)
      <3>1. ForgetParty(p, clients, webPeers \ {p})
        BY <2>2 DEF WebLeave, UnregisterWebPeer
      <3> QED BY <3>1, ForgetTold
    <2>3. CASE \/ WebCheck(p) \/ WebLookup(p)
               \/ RequestStore(p) \/ RequestSent(p, "idle") \/ RequestNotSent(p, "leaving")
               \/ ForwardTarget(p, "idle") \/ ForwardDeliver(p, "idle")
      BY <2>3, CalmSteps DEF WebCheck, WebLookup, RequestStore, StorePendingRequest, RequestSent,
         RequestNotSent, ForwardTarget, ForwardDeliver, hubVars
    <2> QED BY <1>7, <2>1, <2>2, <2>3 DEF WebHandle
  <1>8. ASSUME NEW p \in Peers,
               \/ (\E t \in Tokens : WebOpen(p, t)) \/ WebReadError(p)
               \/ \E s \in SessionIds :
                    WebSessionClose(p, s) \/ \E kind \in Kinds : WebForward(p, kind, s)
        PROVE ToldStep
    BY <1>8, CalmSteps, CloseTold DEF WebOpen, WebSessionClose, WebForward, WebReadError, hubVars
  <1>9. CASE UNCHANGED vars
    BY <1>9, CalmSteps DEF vars, hubVars
  <1> QED BY <1>1, <1>2, <1>3, <1>4, <1>5, <1>6, <1>7, <1>8, <1>9 DEF Next, ConnNext, WebNext

-----------------------------------------------------------------------------
\* Who is told what, when sessions end.
LEMMA EndsTell ==
  ASSUME NEW S \in SUBSET SessionIds, Ends(S)
  PROVE  \E lost \in IF QueueMayFill THEN SUBSET (Actors \X S) ELSE {{}} :
           \A x \in Actors, s \in SessionIds :
             told'[x][s] = IF s \in S /\ x \in Recipients(s, clients', webPeers') \ Deaf
                              /\ <<x, s>> \notin lost
                           THEN "closed" ELSE told[x][s]
  <1>1. NotifySessionClosed(S, clients', webPeers')
    BY DEF Ends
  <1>2. PICK lost \in IF QueueMayFill THEN SUBSET (Actors \X S) ELSE {{}} :
          told' = [a \in Actors |-> [r \in SessionIds |->
               IF r \in S /\ a \in Recipients(r, clients', webPeers') \ Deaf
                  /\ <<a, r>> \notin lost
               THEN "closed" ELSE told[a][r]]]
    BY <1>1, Zenon DEF NotifySessionClosed
  <1> WITNESS lost \in IF QueueMayFill THEN SUBSET (Actors \X S) ELSE {{}}
  <1> QED BY <1>2

LEMMA EveryBelief ==
  ASSUME Typed, ToldStep, NEW x \in Actors, NEW s \in SessionIds
  PROVE  \/ told'[x][s] = told[x][s]
         \/ told'[x][s] = "ready" /\ Due(x, s)
         \/ told'[x][s] = "closed" /\ s \in live /\ s \notin live'
  <1>1. CASE Calm
    BY <1>1 DEF Calm
  <1>2. ASSUME NEW y \in Actors, NEW r \in SessionIds, Announces(y, r)
        PROVE  told'[x][s] = told[x][s] \/ (told'[x][s] = "ready" /\ Due(x, s))
    <2>1. told \in [Actors -> [SessionIds -> Beliefs]]
      BY DEF Typed, TypeOK, HubTypeOK
    <2>2. CASE UNCHANGED told
      BY <2>2
    <2>3. CASE told' = [told EXCEPT ![y][r] = "ready"]
      <3>1. told'[x][s] = IF x = y /\ s = r THEN "ready" ELSE told[x][s]
        BY <2>1, <2>3
      <3> QED BY <1>2, <3>1 DEF Announces
    <2> QED BY <1>2, <2>2, <2>3 DEF Announces, TellReady
  <1>3. ASSUME NEW S \in SUBSET SessionIds, Ends(S)
        PROVE  told'[x][s] = told[x][s] \/ (told'[x][s] = "closed" /\ s \in live /\ s \notin live')
    <2>1. s \in S => s \in live /\ s \notin live'
      BY <1>3 DEF Ends
    <2>2. PICK lost :
            told'[x][s] = IF s \in S /\ x \in Recipients(s, clients', webPeers') \ Deaf
                             /\ <<x, s>> \notin lost
                          THEN "closed" ELSE told[x][s]
      BY <1>3, EndsTell
    <2> QED BY <2>1, <2>2
  <1> QED BY <1>1, <1>2, <1>3 DEF ToldStep

LEMMA LiveHasTerms ==
  ASSUME Typed, SessionPartiesOnline, NEW s \in live
  PROVE  sess[s] # NoSession
  <1>1. Online(sess[s].ctl)
    BY DEF SessionPartiesOnline
  <1> QED BY <1>1, ConstantsAssumption DEF Online, NoSession, Typed, TypeOK, HubTypeOK

LEMMA OverStays ==
  ASSUME Typed, [Next]_vars, NEW s \in SessionIds, sess[s] # NoSession, s \notin live
  PROVE  s \notin live'
  BY EveryAuthorityStep DEF AuthorityStep, Same, Join, Leave, End, Grant

LEMMA AnnouncementsStep ==
  ASSUME Typed, Registry, Held, SessionPartiesOnline, Announcements, [Next]_vars
  PROVE  Announcements'
  <1>1. Fixed /\ ToldStep
    BY EverythingFixed, EveryTold DEF Held
  <1>2. ASSUME NEW x \in Actors, NEW s \in SessionIds, told'[x][s] = "ready"
        PROVE  sess'[s] # NoSession /\ Self(x)' \in {sess'[s].ctl, sess'[s].dev}
    <2>1. Due(x, s)
      BY <1>1, <1>2, EveryBelief DEF Announcements, Due
    <2>2. sess[s] # NoSession /\ sess'[s] = sess[s] /\ Self(x) \in Parties
      BY <1>1, <2>1, ActorsOf DEF Due, Fixed, TermsStay, Held, SessionTerms
    <2>3. Self(x)' = Self(x)
      BY <1>1, <2>2, SelfStays
    <2> QED BY <2>1, <2>2, <2>3 DEF Due
  <1>3. ASSUME NEW x \in Actors, NEW s \in SessionIds, told'[x][s] = "closed"
        PROVE  sess'[s] # NoSession /\ s \notin live'
    <2>1. CASE told[x][s] = "closed"
      <3>1. sess[s] # NoSession /\ s \notin live
        BY <2>1 DEF Announcements
      <3> QED BY <1>1, <3>1, OverStays DEF Fixed, TermsStay
    <2>2. CASE s \in live /\ s \notin live'
      BY <1>1, <2>2, LiveHasTerms DEF Fixed, TermsStay
    <2> QED BY <1>1, <1>3, <2>1, <2>2, EveryBelief
  <1> QED BY <1>2, <1>3 DEF Announcements

LEMMA AnnouncementsAlways == Spec => []Announcements
  <1>1. Init => Announcements
    BY DEF Init, HubInit, Announcements
  <1> QED BY <1>1, AnnouncementsStep, TypedAlways, RegistryAlways, HeldAlways,
             SessionsHaveBothParties, PTL DEF Spec

\* The step that ends a session, whichever it is, tells so to both parties
\* that were told it is ready and are still there, if no queue overflows;
\* and nobody is told so of a session that goes on.
THEOREM EndsAreAnnounced == Spec => EndIsAnnounced
  <1> DEFINE There(x) == ~(x \notin webPeers' /\ \A d \in Devices : clients'[d] # x)
  <1>1. ASSUME Typed, Typed', Registry, Held, Announcements, [Next]_vars, ~QueueMayFill,
               NEW s \in SessionIds, NEW x \in Actors, s \in live \ live',
               told[x][s] = "ready", x \notin Deaf, There(x)
        PROVE  told'[x][s] = "closed"
    <2>1. ToldStep
      BY <1>1, EveryTold
    <2>2. PICK S \in SUBSET SessionIds : Ends(S)
      BY <1>1, <2>1 DEF ToldStep, Calm, Announces
    <2>3. s \in S
      BY <1>1, <2>2 DEF Ends
    <2>4. Self(x) \in {sess[s].ctl, sess[s].dev}
      BY <1>1 DEF Announcements
    <2>5. Endpoint(Self(x), clients', webPeers') = x
      <3>1. CASE x \in webPeers'
        <4>1. x \in Peers /\ x \notin Conns /\ x \notin Devices
          BY <1>1, <3>1, ConstantsAssumption DEF Typed, TypeOK, HubTypeOK
        <4> QED BY <3>1, <4>1 DEF Self, Endpoint
      <3>2. ASSUME NEW d \in Devices, clients'[d] = x
            PROVE  clients'[Self(x)] = x /\ Self(x) \in Devices
        <4>1. x # None
          BY ConstantsAssumption DEF Actors
        <4>2. clients[d] = x
          BY <2>2, <3>2, <4>1 DEF Ends
        <4>3. x \in Conns /\ devId[x] = d
          BY <1>1, <4>1, <4>2, RegisteredIds
        <4> QED BY <3>2, <4>3 DEF Self
      <3> QED BY <1>1, <3>1, <3>2 DEF Endpoint
    <2>6. x \in Recipients(s, clients', webPeers') /\ x \notin Deaf
      <3>1. sess' = sess
        BY <1>1, EveryAuthorityStep DEF AuthorityStep, Same, Join, Leave, End, Grant, Typed, TypeOK, HubTypeOK
      <3> QED BY <1>1, <2>4, <2>5, <3>1 DEF Recipients
    <2>7. PICK lost \in IF QueueMayFill THEN SUBSET (Actors \X S) ELSE {{}} :
            told'[x][s] = IF s \in S /\ x \in Recipients(s, clients', webPeers') \ Deaf
                             /\ <<x, s>> \notin lost
                          THEN "closed" ELSE told[x][s]
      BY <2>2, EndsTell
    <2>8. lost = {}
      BY <1>1, <2>7
    <2> QED BY <2>3, <2>6, <2>7, <2>8
  <1>2. Typed /\ Typed' /\ Registry /\ Held /\ Announcements /\ Announcements' /\ [Next]_vars =>
          [\A s \in SessionIds, x \in Actors :
             /\ (s \in live \ live' /\ told[x][s] = "ready" /\ x \notin Deaf /\ ~QueueMayFill) =>
                  \/ told'[x][s] = "closed"
                  \/ x \notin webPeers' /\ \A d \in Devices : clients'[d] # x
             /\ (told'[x][s] = "closed") => s \notin live']_vars
    BY <1>1 DEF Announcements
  <1> QED BY <1>2, TypedAlways, RegistryAlways, HeldAlways, AnnouncementsAlways, PTL
          DEF Spec, EndIsAnnounced

-----------------------------------------------------------------------------
(* The relay implements SessionAuthority.                                  *)

\* Messages come and go with ForwardTarget and ForwardDeliver only.
Undisturbed == \A x \in Actors : pc[x] = "deliver" \/ pc'[x] = "deliver" => Stays(x)

LEMMA EveryPass ==
  ASSUME Typed, [Next]_vars
  PROVE  \/ Undisturbed
         \/ \E x \in Actors : ForwardTarget(x, "idle") \/ ForwardDeliver(x, "idle")
  <1> DEFINE Passes == \/ Undisturbed
                       \/ \E x \in Actors : ForwardTarget(x, "idle") \/ ForwardDeliver(x, "idle")
  <1>1. /\ Keep => Passes
        /\ UNCHANGED <<pc, arg>> => Passes
    BY DEF Keep, Undisturbed, Stays
  <1>2. ASSUME NEW x \in Actors
        PROVE  /\ \A l : Goto(x, l) /\ l # "deliver" /\ pc[x] # "deliver" => Passes
               /\ \A l, a : GotoWith(x, l, a) /\ l # "deliver" /\ pc[x] # "deliver" => Passes
               /\ ForwardTarget(x, "idle") \/ ForwardDeliver(x, "idle") => Passes
    <2>1. ASSUME OnlyMoves(x), pc[x] # "deliver", pc'[x] # "deliver" PROVE Passes
      BY <2>1 DEF OnlyMoves, Undisturbed
    <2> QED BY <1>2, <2>1, MovesAlone
  <1> SUFFICES Passes
    OBVIOUS
  <1> HIDE DEF Passes
  <1>3. CASE Reaper \/ ShareNext \/ UNCHANGED vars
    BY <1>1, <1>3 DEF Reaper, ReaperScan, ReaperClose, ShareNext, WebShareCreate, WebShareRevoke,
       WebShareList, WebShareExpires, WebPage, connVars, vars
  <1>4. ASSUME NEW c \in Conns, Message(c) PROVE Passes
    <2>1. \A l, a : GotoWith(c, l, a) /\ l # "deliver" /\ pc[c] # "deliver" => Passes
      BY <1>2, ActorsOf
    <2>2. CASE \/ \E code \in Codes : AuthCodePublish(c, code)
               \/ \E s \in SessionIds : SessionClose(c, s)
      BY <1>1, <2>2 DEF AuthCodePublish, SessionClose
    <2>3. ASSUME NEW d \in Devices, NEW mode \in WireModes, NEW code \in Codes \cup {None},
                 SessionRequest(c, d, mode, code)
          PROVE Passes
      BY <1>1, <2>1, <2>3 DEF SessionRequest, Read
    <2>4. ASSUME NEW ctl \in Parties, NEW accepted, NEW input, NEW mode \in WireModes,
                 SessionConfirm(c, ctl, accepted, mode, input)
          PROVE Passes
      BY <1>1, <2>1, <2>4 DEF SessionConfirm, Read
    <2>5. ASSUME NEW s \in SessionIds, NEW kind \in Kinds, Forward(c, kind, s) PROVE Passes
      BY <1>1, <2>1, <2>5 DEF Forward, Read
    <2> QED BY <1>4, <2>2, <2>3, <2>4, <2>5 DEF Message
  <1>5. ASSUME NEW c \in Conns, Handle(c) PROVE Passes
    <2>1. /\ \A l : Goto(c, l) /\ l # "deliver" /\ pc[c] # "deliver" => Passes
          /\ \A l, a : GotoWith(c, l, a) /\ l # "deliver" /\ pc[c] # "deliver" => Passes
      BY <1>2, ActorsOf
    <2>2. CASE RegisterRefused(c) \/ RegisterInsert(c) \/ EvictClose(c) \/ EvictReturn(c)
      BY <1>1, <2>1, <2>2 DEF RegisterRefused, RegisterInsert, EvictClose, EvictReturn, Return
    <2>3. CASE RequestAuth(c) \/ RequestStore(c) \/ RequestSent(c, "idle") \/ RequestNotSent(c, "idle")
      BY <2>1, <2>3 DEF RequestAuth, RequestStore, RequestSent, RequestNotSent, Return
    <2>4. CASE ConfirmConsume(c)
      BY <2>1, <2>4 DEF ConfirmConsume, Return
    <2>5. ASSUME NEW s \in SessionIds, ConfirmCreate(c, s) PROVE Passes
      BY <2>1, <2>5 DEF ConfirmCreate, Return
    <2>6. CASE ReadyToController(c) \/ ReadyToControlled(c) \/ ForwardRoute(c)
      BY <2>1, <2>6 DEF ReadyToController, ReadyToControlled, ForwardRoute, Return
    <2>7. CASE ForwardTarget(c, "idle") \/ ForwardDeliver(c, "idle")
      BY <1>2, <2>7, ActorsOf
    <2> QED BY <1>5, <2>2, <2>3, <2>4, <2>5, <2>6, <2>7 DEF Handle
  <1>6. ASSUME NEW c \in Conns, RegisterBegin(c) PROVE Passes
    <2>1. pc[c] = "idle" /\ Goto(c, "register")
      BY <1>6, BeginsFirst DEF RegisterBegin
    <2> QED BY <1>2, <2>1, ActorsOf
  <1>7. ASSUME NEW c \in Conns, ReadError(c) \/ WriteError(c)
                                \/ CloseUnregister(c) \/ GoQuiet(c) \/ CodeExpires(c)
        PROVE Passes
    BY <1>1, <1>2, <1>7, ActorsOf DEF ReadError, WriteError, CloseUnregister, GoQuiet, CodeExpires
  <1>8. ASSUME NEW p \in Peers, WebHandle(p) PROVE Passes
    <2>1. CASE WebCheck(p) \/ WebLookup(p) \/ WebInsert(p) \/ WebLeave(p)
      BY <1>2, <2>1, ActorsOf DEF WebCheck, WebLookup, WebInsert, WebLeave
    <2>2. CASE \/ RequestStore(p) \/ RequestSent(p, "idle") \/ RequestNotSent(p, "leaving")
               \/ ForwardTarget(p, "idle") \/ ForwardDeliver(p, "idle")
      BY <1>2, <2>2, ActorsOf DEF RequestStore, RequestSent, RequestNotSent
    <2> QED BY <1>8, <2>1, <2>2 DEF WebHandle
  <1>9. ASSUME NEW p \in Peers,
               \/ (\E t \in Tokens : WebOpen(p, t)) \/ WebReadError(p)
               \/ \E s \in SessionIds :
                    WebSessionClose(p, s) \/ \E kind \in Kinds : WebForward(p, kind, s)
        PROVE Passes
    <2>1. CASE (\E t \in Tokens : WebOpen(p, t)) \/ WebReadError(p)
      BY <1>2, <2>1, ActorsOf DEF WebOpen, WebReadError
    <2>2. ASSUME NEW s \in SessionIds, WebSessionClose(p, s) PROVE Passes
      BY <1>1, <2>2 DEF WebSessionClose, connVars
    <2>3. ASSUME NEW s \in SessionIds, NEW kind \in Kinds, WebForward(p, kind, s) PROVE Passes
      BY <1>1, <1>2, <2>3, ActorsOf DEF WebForward
    <2> QED BY <1>9, <2>1, <2>2, <2>3
  <1> QED BY <1>3, <1>4, <1>5, <1>6, <1>7, <1>8, <1>9 DEF Next, ConnNext, WebNext

-----------------------------------------------------------------------------
(* The messages on their way, record by record.                            *)

Note(x) == [sid |-> arg[x].sid, from |-> Self(x), kind |-> arg[x].kind]

LEMMA PassingNotes ==
  /\ passing = {Note(x) : x \in {y \in Actors : pc[y] = "deliver"}}
  /\ passing' = {Note(x)' : x \in {y \in Actors : pc'[y] = "deliver"}}
  BY DEF passing, Note

LEMMA NoteStays ==
  ASSUME Typed, Held, Fixed, NEW x \in Actors, Stays(x), pc[x] = "deliver"
  PROVE  Note(x)' = Note(x)
  BY SelfStays, SenderIsParty DEF Note, Stays

\* A message that is put on its way has its grant.
LEMMA TargetPasses ==
  ASSUME Typed, Held, Fixed, NEW x \in Actors, ForwardTarget(x, "idle"), OnlyMoves(x)
  PROVE  passing' = passing
         \/ (\E m \in [sid: SessionIds, from: Parties, kind: AllKinds] : SA!Pass(m))
  <1>1. pc[x] = "target" /\ UNCHANGED hubVars /\ arg[x] \in Arg /\ Self(x)' = Self(x) /\ Self(x) \in Parties
    BY SelfStays, SenderIsParty DEF ForwardTarget, Typed, TypeOK, ConnTypeOK
  <1>2. \A y \in Actors : y # x => (pc'[y] = "deliver" <=> pc[y] = "deliver")
                                   /\ (pc[y] = "deliver" => Note(y)' = Note(y))
    BY NoteStays DEF OnlyMoves, Stays, Held
  <1>3. CASE pc'[x] # "deliver"
    <2>1. passing' = passing
      BY <1>1, <1>2, <1>3, PassingNotes
    <2> QED BY <2>1
  <1>4. CASE pc'[x] = "deliver"
    <2> DEFINE m == Note(x)
    <2>1. arg'[x].sid = arg[x].sid /\ arg'[x].kind = arg[x].kind
      <3> DEFINE e == Endpoint(arg[x].to, clients, webPeers)
                 a == [arg[x] EXCEPT !.conn = e]
      <3>1. a.sid = arg[x].sid /\ a.kind = arg[x].kind
        BY <1>1 DEF Arg
      <3>2. GotoWith(x, "idle", NoArg) \/ GotoWith(x, "deliver", a)
        BY DEF ForwardTarget
      <3> HIDE DEF a, e
      <3> QED BY <1>4, <3>1, <3>2, GotoMoves
    <2>2. Note(x)' = m
      BY <1>1, <2>1 DEF Note
    <2>3. passing' = passing \cup {m}
      BY <1>1, <1>2, <1>4, <2>2, PassingNotes
    <2>4. m.sid = arg[x].sid /\ m.from = Self(x) /\ m.kind = arg[x].kind
      BY DEF Note
    <2>5. /\ arg[x].sid \in SessionIds /\ sess[arg[x].sid] # NoSession
          /\ arg[x].kind = "input" => sess[arg[x].sid].input
          /\ arg[x].kind \in {"input", "control"} => Self(x) = sess[arg[x].sid].ctl
          /\ Self(x) \in {sess[arg[x].sid].ctl, sess[arg[x].sid].dev}
      BY <1>1 DEF Held, Sound, MessageHeld
    <2>6. m \in [sid: SessionIds, from: Parties, kind: AllKinds]
      BY <1>1, <2>5 DEF Note, Arg
    <2>7. UNCHANGED <<{y \in Parties : Online(y)}, sess, live>>
      BY <1>1 DEF hubVars, Online
    <2> HIDE DEF m
    <2>8. SA!Pass(m)
      BY <2>3, <2>4, <2>5, <2>7 DEF SA!Pass, SA!PartiesOf
    <2> QED BY <2>6, <2>8
  <1> QED BY <1>3, <1>4

LEMMA DeliverPasses ==
  ASSUME Typed, Held, Fixed, NEW x \in Actors, ForwardDeliver(x, "idle"), OnlyMoves(x)
  PROVE  passing' = passing
         \/ (\E m \in [sid: SessionIds, from: Parties, kind: AllKinds] : SA!Passed(m))
  <1>1. /\ pc[x] = "deliver" /\ UNCHANGED hubVars /\ arg[x] \in Arg /\ Self(x) \in Parties
        /\ pc'[x] = "idle"
    BY SenderIsParty, GotoMoves DEF ForwardDeliver, Typed, TypeOK, ConnTypeOK
  <1>2. \A y \in Actors : y # x => (pc'[y] = "deliver" <=> pc[y] = "deliver")
                                   /\ (pc[y] = "deliver" => Note(y)' = Note(y))
    BY NoteStays DEF OnlyMoves, Stays, Held
  <1> DEFINE m == Note(x)
  <1>3. m \in [sid: SessionIds, from: Parties, kind: AllKinds]
    BY <1>1 DEF Note, Arg, Held, Sound, MessageHeld
  <1> HIDE DEF m
  <1>4. passing' = passing \/ passing' = passing \ {m}
    BY <1>1, <1>2, PassingNotes DEF m
  <1>5. UNCHANGED <<{y \in Parties : Online(y)}, sess, live>>
    BY <1>1 DEF hubVars, Online
  <1> QED BY <1>3, <1>4, <1>5 DEF SA!Passed

LEMMA AuthorityMaps ==
  ASSUME AuthorityStep, passing' = passing
  PROVE  [SA!Next]_SA!vars
  <1>1. CASE Same
    BY <1>1 DEF Same, OnlineSet, SA!vars
  <1>2. ASSUME NEW x \in Parties, Join(x) PROVE SA!Next
    <2>1. SA!Join(x)
      BY <1>2 DEF Join, OnlineSet, SA!Join
    <2> QED BY <2>1 DEF SA!Next
  <1>3. ASSUME NEW x \in Parties, Leave(x) PROVE SA!Next
    <2>1. SA!Leave(x)
      BY <1>3 DEF Leave, OnlineSet, SessionsOf, SA!Leave, SA!PartiesOf
    <2> QED BY <2>1 DEF SA!Next
  <1>4. ASSUME NEW s \in SessionIds, End(s) PROVE SA!Next
    <2>1. SA!End(s)
      BY <1>4 DEF End, OnlineSet, SA!End
    <2> QED BY <2>1 DEF SA!Next
  <1>5. ASSUME NEW s \in SessionIds, NEW t \in Terms, Grant(s, t) PROVE SA!Next
    <2>1. SA!Grant(s, t)
      BY <1>5 DEF Grant, OnlineSet, SA!Grant
    <2>2. t \in SA!Terms
      BY DEF Terms, Modes, Parties, SA!Terms
    <2> QED BY <2>1, <2>2 DEF SA!Next
  <1> QED BY <1>1, <1>2, <1>3, <1>4, <1>5 DEF AuthorityStep

LEMMA PromiseStep ==
  ASSUME Typed, Held, [Next]_vars
  PROVE  [SA!Next]_SA!vars
  <1>1. Fixed
    BY EverythingFixed DEF Held
  <1>2. CASE passing' = passing
    BY <1>2, EveryAuthorityStep, AuthorityMaps
  <1>3. CASE Undisturbed
    <2>1. \A x \in Actors : /\ pc'[x] = "deliver" <=> pc[x] = "deliver"
                            /\ pc[x] = "deliver" => Note(x)' = Note(x)
      BY <1>1, <1>3, NoteStays DEF Undisturbed, Stays, Held
    <2>2. passing' = passing
      BY <2>1, PassingNotes
    <2> QED BY <1>2, <2>2
  <1>4. ASSUME NEW x \in Actors, ForwardTarget(x, "idle") \/ ForwardDeliver(x, "idle")
        PROVE  [SA!Next]_SA!vars
    <2>1. OnlyMoves(x)
      BY <1>4, MovesAlone DEF ForwardTarget, ForwardDeliver
    <2> QED BY <1>1, <1>2, <1>4, <2>1, TargetPasses, DeliverPasses DEF SA!Next
  <1> QED BY <1>3, <1>4, EveryPass

\* The relay implements the abstract authority: every step of its handlers
\* is a step of SessionAuthority or leaves what it speaks of unchanged.
THEOREM RelayImplementsAuthority == Spec => SessionAuthoritySpec
  <1>1. Init => SA!Init
    BY DEF Init, HubInit, ConnInit, Online, passing, SA!Init
  <1> QED BY <1>1, PromiseStep, TypedAlways, HeldAlways, PTL
          DEF Spec, SessionAuthoritySpec, SA!Spec

-----------------------------------------------------------------------------
(* What a step may not do.                                                 *)

\* What changes the state of connections, and how.
LEMMA EveryStage ==
  ASSUME Typed, [Next]_vars
  PROVE  \/ UNCHANGED connState
         \/ \E c : connState' = Closing(c)
         \/ \E c \in Conns : \/ Read(c) \/ RegisterBegin(c) \/ GoQuiet(c) \/ CloseUnregister(c)
  <1> DEFINE Changes ==
               \/ UNCHANGED connState
               \/ \E c : connState' = Closing(c)
               \/ \E c \in Conns : \/ Read(c) \/ RegisterBegin(c) \/ GoQuiet(c) \/ CloseUnregister(c)
  <1>1. CASE Reaper
    BY <1>1 DEF Reaper, ReaperScan, ReaperClose
  <1>2. ASSUME NEW c \in Conns, Message(c) PROVE Read(c)
    BY <1>2 DEF Message, AuthCodePublish, SessionRequest, SessionConfirm, SessionClose, Forward
  <1>3. ASSUME NEW c \in Conns, Handle(c)
        PROVE  UNCHANGED connState \/ connState' = Closing(arg[c].conn)
    BY <1>3 DEF Handle, RegisterRefused, RegisterInsert, EvictClose, EvictReturn, RequestAuth,
       RequestStore, RequestSent, RequestNotSent, ConfirmConsume, ConfirmCreate,
       ReadyToController, ReadyToControlled, ForwardRoute, ForwardTarget, ForwardDeliver
  <1>4. ASSUME NEW c \in Conns, ReadError(c) \/ WriteError(c) \/ CodeExpires(c)
        PROVE  UNCHANGED connState \/ connState' = Closing(c)
    BY <1>4 DEF ReadError, WriteError, CodeExpires
  <1>5. ASSUME NEW c \in Conns, NEW t \in Tokens, NEW mode \in WireModes,
               WebShareCreate(c, t, mode)
        PROVE  Read(c)
    BY <1>5 DEF WebShareCreate
  <1>6. ASSUME NEW c \in Conns, NEW t \in Tokens, WebShareRevoke(c, t)
        PROVE  Read(c)
    BY <1>6 DEF WebShareRevoke
  <1>7. ASSUME NEW c \in Conns, WebShareList(c)
        PROVE  Read(c)
    BY <1>7 DEF WebShareList
  <1>8. ASSUME NEW t \in Tokens, WebShareExpires(t) \/ WebPage(t)
        PROVE  UNCHANGED connState
    BY <1>8 DEF WebShareExpires, WebPage, connVars
  <1>9. CASE WebNext
    BY <1>9 DEF WebNext, WebOpen, WebHandle, WebSessionClose, WebForward, WebReadError, WebCheck,
       WebLookup, WebInsert, WebLeave, RequestStore, RequestSent, RequestNotSent, ForwardTarget,
       ForwardDeliver, connOnly, connVars
  <1>10. CASE UNCHANGED vars
    BY <1>10 DEF vars, connVars
  <1>11. CASE ConnNext
    <2> HIDE DEF Changes
    <2>1. ASSUME UNCHANGED connState \/ (\E c : connState' = Closing(c)) PROVE Changes
      BY <2>1 DEF Changes
    <2>2. ASSUME NEW c \in Conns, Read(c) \/ RegisterBegin(c) \/ GoQuiet(c) \/ CloseUnregister(c)
          PROVE Changes
      BY <2>2 DEF Changes
    <2>3. Changes
      BY <1>1, <1>2, <1>3, <1>4, <1>11, <2>1, <2>2 DEF ConnNext
    <2> QED BY <2>3 DEF Changes
  <1>12. CASE ShareNext
    BY <1>5, <1>6, <1>7, <1>8, <1>12 DEF ShareNext
  <1> QED BY <1>9, <1>10, <1>11, <1>12 DEF Next

\* A late close() takes nothing from the connection that replaced its own,
\* whoever replaces a connection goes on to close it, and a close() that ends
\* while its connection has a place gives it up.
THEOREM ReplacementIsSafe == Spec => PlacesPassOn
  <1> DEFINE PassesOn(d) ==
               LET old == clients[d]
                   new == clients'[d]
               IN IF new = None
                  THEN connState[old] = "closing" /\ connState'[old] = "closed"
                  ELSE /\ pc[new] = "register" /\ devId[new] = d
                       /\ old # None => pc'[new] = "evict" /\ arg'[new].conn = old
             NotLeft(d) == clients[d] # None /\ connState'[clients[d]] = "closed" =>
                            connState[clients[d]] = "closed"
  <1>1. ASSUME Typed, NEW c \in Conns, NEW d \in Devices, clients'[d] # clients[d],
               RegisterInsert(c)
        PROVE  PassesOn(d)
    <2> DEFINE old == clients[devId[c]]
               a == [NoArg EXCEPT !.conn = old]
    <2>1. c \in Actors /\ c # None
      BY ActorsOf, ConstantsAssumption
    <2>2. pc[c] = "register" /\ clients' = [clients EXCEPT ![devId[c]] = c]
      BY <1>1 DEF RegisterInsert, Insert
    <2>3. d = devId[c] /\ clients'[d] = c /\ old # c
      BY <1>1, <2>2 DEF Typed, TypeOK, HubTypeOK
    <2>4. a.conn = old
      BY DEF NoArg
    <2>5. old = None \/ GotoWith(c, "evict", a)
      BY <1>1, <2>3 DEF RegisterInsert
    <2> HIDE DEF a
    <2>6. old # None => pc'[c] = "evict" /\ arg'[c].conn = old
      BY <1>1, <2>1, <2>4, <2>5, GotoMoves
    <2> QED BY <2>1, <2>2, <2>3, <2>6
  <1>2. ASSUME Typed, NEW c \in Conns, NEW d \in Devices, clients'[d] # clients[d],
               CloseUnregister(c)
        PROVE  PassesOn(d)
    <2>1. clients[d] = c /\ clients'[d] = None
      BY <1>2, UnregisterPlaces
    <2>2. connState[c] = "closing" /\ connState'[c] = "closed"
      BY <1>2 DEF CloseUnregister, Typed, TypeOK, ConnTypeOK
    <2> QED BY <2>1, <2>2
  <1>3. ASSUME Typed, Registry, [Next]_vars, NEW d \in Devices, clients'[d] = clients[d]
        PROVE  NotLeft(d)
    <2> DEFINE o == clients[d]
    <2> SUFFICES ASSUME o # None, connState'[o] = "closed", connState[o] # "closed"
                 PROVE  FALSE
      OBVIOUS
    <2>1. o \in Conns /\ devId[o] = d
      BY <1>3, RegisteredIds
    <2> HIDE DEF o
    <2>2. connState \in [Conns -> {"open", "quiet", "closing", "closed"}]
      BY <1>3 DEF Typed, TypeOK, ConnTypeOK
    <2>3. \A c \in Conns : ~(Read(c) \/ GoQuiet(c))
      BY <2>1, <2>2 DEF Read, GoQuiet
    <2>4. ASSUME NEW c, connState' = Closing(c) PROVE FALSE
      BY <2>1, <2>2, <2>4 DEF Closing
    <2>5. PICK c \in Conns : CloseUnregister(c)
      <3>1. connState' # connState
        BY <2>1
      <3> QED BY <1>3, <2>3, <2>4, <3>1, EveryStage DEF RegisterBegin
    <2>6. c = o
      BY <2>1, <2>2, <2>5 DEF CloseUnregister
    <2>7. clients'[d] = None
      BY <1>3, <2>1, <2>5, <2>6, UnregisterPlaces DEF o
    <2> QED BY <1>3, <2>7 DEF o
  <1>4. Typed /\ Registry /\ [Next]_vars =>
          [\A d \in Devices : IF clients'[d] = clients[d] THEN NotLeft(d) ELSE PassesOn(d)]_vars
    <2> SUFFICES ASSUME Typed, Registry, [Next]_vars, NEW d \in Devices
                 PROVE  IF clients'[d] = clients[d] THEN NotLeft(d) ELSE PassesOn(d)
      OBVIOUS
    <2> HIDE DEF PassesOn, NotLeft
    <2> QED BY <1>1, <1>2, <1>3, EveryPlace
  <1> QED BY <1>4, TypedAlways, RegistryAlways, PTL DEF Spec, PlacesPassOn

\* closeOnce: whoever closes a connection, and however often, it is closed
\* once and stays closed.
THEOREM ConnectionsCloseOnce == Spec => CloseIsFinal
  <1> DEFINE Later == \A c \in Conns : Stage(connState[c]) <= Stage(connState'[c])
             States == {"open", "quiet", "closing", "closed"}
  <1>1. /\ Stage("open") = 1 /\ Stage("quiet") = 1
        /\ Stage("closing") = 2 /\ Stage("closed") = 3
    BY DEF Stage
  <1>2. \A st \in States : Stage(st) <= Stage(st)
    BY <1>1
  <1>3. ASSUME Typed, [Next]_vars PROVE Later
    <2>1. connState \in [Conns -> States]
      BY <1>3 DEF Typed, TypeOK, ConnTypeOK
    <2>2. CASE UNCHANGED connState
      BY <1>2, <2>1, <2>2
    <2>3. ASSUME NEW c, connState' = Closing(c) PROVE Later
      BY <1>1, <1>2, <2>1, <2>3 DEF Closing
    <2>4. ASSUME NEW c \in Conns, Read(c) PROVE Later
      BY <1>1, <1>2, <2>1, <2>4 DEF Read
    <2>5. ASSUME NEW c \in Conns, RegisterBegin(c) PROVE Later
      BY <1>1, <1>2, <2>1, <2>5 DEF RegisterBegin, Read
    <2>6. ASSUME NEW c \in Conns, GoQuiet(c) PROVE Later
      BY <1>1, <1>2, <2>1, <2>6 DEF GoQuiet
    <2>7. ASSUME NEW c \in Conns, CloseUnregister(c) PROVE Later
      BY <1>1, <1>2, <2>1, <2>7 DEF CloseUnregister
    <2> HIDE DEF Later
    <2> QED BY <1>3, <2>2, <2>3, <2>4, <2>5, <2>6, <2>7, EveryStage
  <1>4. Typed /\ [Next]_vars => [Later]_vars
    BY <1>3
  <1> QED BY <1>4, TypedAlways, PTL DEF Spec, CloseIsFinal

\* The values of SectionsLeft, so that no proof has to open it.
LEMMA SectionsOf ==
  /\ SectionsLeft("idle") = 0 /\ SectionsLeft("ended") = 0
  /\ SectionsLeft("leaving") = 1 /\ SectionsLeft("evict") = 1
  /\ SectionsLeft("readyDev") = 1 /\ SectionsLeft("deliver") = 1
  /\ SectionsLeft("register") = 2 /\ SectionsLeft("send") = 2
  /\ SectionsLeft("readyCtl") = 2 /\ SectionsLeft("target") = 2
  /\ SectionsLeft("store") = 3 /\ SectionsLeft("create") = 3 /\ SectionsLeft("route") = 3
  /\ SectionsLeft("auth") = 4 /\ SectionsLeft("insert") = 4 /\ SectionsLeft("confirm") = 4
  /\ SectionsLeft("lookup") = 5 /\ SectionsLeft("check") = 6 /\ SectionsLeft("none") = 7
  BY DEF SectionsLeft

\* What HandlersAdvance says of a step.
Nearer(x) == pc'[x] # pc[x] =>
  \/ pc[x] = "idle"
  \/ SectionsLeft(pc'[x]) < SectionsLeft(pc[x])
Advance == \A x \in Actors : Nearer(x)

LEMMA StaysAdvance ==
  ASSUME \A x \in Actors : pc'[x] = pc[x]
  PROVE  Advance
  BY DEF Advance, Nearer

\* A handler that goes to l, from a place that is further away.
LEMMA GotoAdvance ==
  ASSUME Typed, NEW x \in Actors
  PROVE  /\ Keep => Advance
         /\ \A l : Goto(x, l) /\ (pc[x] = "idle" \/ SectionsLeft(l) < SectionsLeft(pc[x]))
                  => Advance
         /\ \A l, a : GotoWith(x, l, a) /\ (pc[x] = "idle" \/ SectionsLeft(l) < SectionsLeft(pc[x]))
                     => Advance
  <1>1. Keep => Advance
    BY StaysAdvance DEF Keep
  <1>2. ASSUME NEW l, OnlyMoves(x), pc'[x] = l,
               pc[x] = "idle" \/ SectionsLeft(l) < SectionsLeft(pc[x])
        PROVE  Advance
    BY <1>2 DEF OnlyMoves, Stays, Advance, Nearer
  <1> QED BY <1>1, <1>2, MovesAlone

\* The sections of a handler that starts a message or goes on with one.
LEMMA ConnWorkAdvance ==
  ASSUME Typed, NEW c \in Conns, ConnWorks(c)
  PROVE  Advance
  <1> c \in Actors
    BY ActorsOf
  <1>1. /\ Keep => Advance
        /\ \A l : Goto(c, l) /\ (pc[c] = "idle" \/ SectionsLeft(l) < SectionsLeft(pc[c]))
                 => Advance
        /\ \A l, a : GotoWith(c, l, a) /\ (pc[c] = "idle" \/ SectionsLeft(l) < SectionsLeft(pc[c]))
                    => Advance
    BY GotoAdvance
  <1>2. ASSUME NEW d \in Devices, NEW mode \in WireModes, NEW code \in Codes \cup {None},
               SessionRequest(c, d, mode, code)
        PROVE Advance
    BY <1>1, <1>2 DEF SessionRequest, Read
  <1>3. CASE RequestAuth(c)
    BY <1>1, <1>3, SectionsOf DEF RequestAuth, Return
  <1>4. CASE RequestStore(c)
    BY <1>1, <1>4, SectionsOf DEF RequestStore
  <1>5. ASSUME NEW ctl \in Parties, NEW accepted, NEW input, NEW mode \in WireModes,
               SessionConfirm(c, ctl, accepted, mode, input)
        PROVE Advance
    BY <1>1, <1>5 DEF SessionConfirm, Read
  <1>6. CASE ConfirmConsume(c)
    BY <1>1, <1>6, SectionsOf DEF ConfirmConsume, Return
  <1>7. ASSUME NEW s \in SessionIds, ConfirmCreate(c, s) PROVE Advance
    BY <1>1, <1>7, SectionsOf DEF ConfirmCreate, Return
  <1>8. CASE ReadyToController(c)
    BY <1>1, <1>8, SectionsOf DEF ReadyToController
  <1>9. ASSUME NEW s \in SessionIds, NEW kind \in Kinds, Forward(c, kind, s) PROVE Advance
    BY <1>1, <1>9 DEF Forward, Read
  <1>10. CASE ForwardRoute(c)
    BY <1>1, <1>10, SectionsOf DEF ForwardRoute, Return
  <1>11. CASE ForwardTarget(c, "idle")
    BY <1>1, <1>11, SectionsOf DEF ForwardTarget
  <1> QED BY <1>2, <1>3, <1>4, <1>5, <1>6, <1>7, <1>8, <1>9, <1>10, <1>11 DEF ConnWorks

LEMMA ConnAdvance ==
  ASSUME Typed, ConnNext
  PROVE  Advance
  <1>1. CASE Reaper
    BY <1>1, StaysAdvance DEF Reaper, ReaperScan, ReaperClose, Keep
  <1>2. ASSUME NEW c \in Conns, Message(c) \/ Handle(c) PROVE Advance
    <2>1. c \in Actors
      BY ActorsOf
    <2>2. CASE ConnWorks(c)
      BY <2>2, ConnWorkAdvance
    <2>3. CASE \/ \E code \in Codes : AuthCodePublish(c, code)
               \/ \E s \in SessionIds : SessionClose(c, s)
               \/ EvictClose(c)
      BY <2>3, StaysAdvance DEF AuthCodePublish, SessionClose, EvictClose, Keep
    <2>4. CASE RegisterRefused(c) \/ EvictReturn(c) \/ ReadyToControlled(c)
      BY <2>1, <2>4, GotoAdvance, SectionsOf
         DEF RegisterRefused, EvictReturn, ReadyToControlled, Return
    <2>5. CASE RequestSent(c, "idle") \/ RequestNotSent(c, "idle") \/ ForwardDeliver(c, "idle")
      BY <2>1, <2>5, GotoAdvance, SectionsOf DEF RequestSent, RequestNotSent, ForwardDeliver
    <2>6. CASE RegisterInsert(c)
      BY <2>1, <2>6, GotoAdvance, SectionsOf DEF RegisterInsert, Return
    <2> QED BY <1>2, <2>2, <2>3, <2>4, <2>5, <2>6 DEF Message, Handle, ConnWorks
  <1>3. ASSUME NEW c \in Conns, RegisterBegin(c) PROVE Advance
    BY <1>3, ActorsOf, GotoAdvance DEF RegisterBegin, Read
  <1>4. ASSUME NEW c \in Conns, ReadError(c) PROVE Advance
    BY <1>4, ActorsOf, GotoAdvance DEF ReadError
  <1>5. ASSUME NEW c \in Conns,
               WriteError(c) \/ CloseUnregister(c) \/ GoQuiet(c) \/ CodeExpires(c)
        PROVE Advance
    BY <1>5, StaysAdvance DEF WriteError, CloseUnregister, GoQuiet, CodeExpires, Keep
  <1> QED BY <1>1, <1>2, <1>3, <1>4, <1>5 DEF ConnNext

LEMMA WebAdvance ==
  ASSUME Typed, WebNext
  PROVE  Advance
  <1>1. PICK p \in Peers :
          \/ \E t \in Tokens : WebOpen(p, t)
          \/ WebHandle(p)
          \/ \E s \in SessionIds : WebSessionClose(p, s) \/ \E kind \in Kinds : WebForward(p, kind, s)
          \/ WebReadError(p)
    BY DEF WebNext
  <1>2. p \in Actors
    BY ActorsOf
  <1>3. CASE \E t \in Tokens : WebOpen(p, t)
    BY <1>2, <1>3, GotoAdvance, SectionsOf DEF WebOpen
  <1>4. CASE WebCheck(p)
    BY <1>2, <1>4, GotoAdvance, SectionsOf DEF WebCheck
  <1>5. CASE WebLookup(p)
    BY <1>2, <1>5, GotoAdvance, SectionsOf DEF WebLookup
  <1>6. CASE WebInsert(p) \/ RequestStore(p)
    BY <1>2, <1>6, GotoAdvance, SectionsOf DEF WebInsert, RequestStore
  <1>7. CASE RequestSent(p, "idle") \/ RequestNotSent(p, "leaving")
    BY <1>2, <1>7, GotoAdvance, SectionsOf DEF RequestSent, RequestNotSent
  <1>8. CASE ForwardTarget(p, "idle") \/ ForwardDeliver(p, "idle") \/ WebLeave(p)
    BY <1>2, <1>8, GotoAdvance, SectionsOf DEF ForwardTarget, ForwardDeliver, WebLeave
  <1>9. CASE \E s \in SessionIds : WebSessionClose(p, s)
    BY <1>9, StaysAdvance DEF WebSessionClose, connVars
  <1>10. CASE (\E s \in SessionIds, kind \in Kinds : WebForward(p, kind, s)) \/ WebReadError(p)
    BY <1>2, <1>10, GotoAdvance DEF WebForward, WebReadError
  <1> QED BY <1>1, <1>3, <1>4, <1>5, <1>6, <1>7, <1>8, <1>9, <1>10 DEF WebHandle

\* Between two messages every handler only comes nearer to its return.
THEOREM HandlersOnlyAdvance == Spec => HandlersAdvance
  <1>1. Typed /\ [Next]_vars => Advance
    <2> SUFFICES ASSUME Typed, [Next]_vars PROVE Advance
      OBVIOUS
    <2>1. CASE ShareNext
      BY <2>1, StaysAdvance DEF ShareNext, WebShareCreate, WebShareRevoke, WebShareList,
         WebShareExpires, WebPage, connVars, Keep
    <2>2. CASE UNCHANGED vars
      BY <2>2, StaysAdvance DEF vars, connVars
    <2> QED BY <2>1, <2>2, ConnAdvance, WebAdvance DEF Next
  <1>2. Advance <=> \A x \in Actors : pc'[x] # pc[x] =>
                      \/ pc[x] = "idle"
                      \/ SectionsLeft(pc'[x]) < SectionsLeft(pc[x])
    BY DEF Advance, Nearer
  <1> QED BY <1>1, <1>2, TypedAlways, PTL DEF Spec, HandlersAdvance

-----------------------------------------------------------------------------
(* What users of SessionAuthority may conclude, and so of the relay.       *)

\* The terms of no session are not terms that anybody could be granted.
LEMMA NobodyHasNoTerms == NoSession \notin SA!Terms
  BY ConstantsAssumption DEF NoSession, SA!Terms, Parties

\* Whoever keeps to the steps of the authority keeps its promise.
LEMMA AuthorityPromise == SA!Spec => [](SA!TypeOK /\ SA!Promise)
  <1>1. SA!Init => SA!TypeOK /\ SA!Promise
    BY DEF SA!Init, SA!TypeOK, SA!Promise
  <1>2. SA!TypeOK /\ SA!Promise /\ [SA!Next]_SA!vars => (SA!TypeOK /\ SA!Promise)'
    <2> SUFFICES ASSUME SA!TypeOK, SA!Promise, [SA!Next]_SA!vars
                 PROVE  SA!TypeOK' /\ SA!Promise'
      OBVIOUS
    <2> USE DEF SA!TypeOK, SA!Promise, SA!PartiesOf
    <2>1. CASE UNCHANGED SA!vars
      BY <2>1 DEF SA!vars
    <2>2. ASSUME NEW x \in Parties, SA!Join(x) PROVE SA!TypeOK' /\ SA!Promise'
      BY <2>2 DEF SA!Join
    <2>3. ASSUME NEW x \in Parties, SA!Leave(x) PROVE SA!TypeOK' /\ SA!Promise'
      BY <2>3 DEF SA!Leave
    <2>4. ASSUME NEW s \in SessionIds, SA!End(s) PROVE SA!TypeOK' /\ SA!Promise'
      BY <2>4 DEF SA!End
    <2>5. ASSUME NEW s \in SessionIds, NEW t \in SA!Terms, SA!Grant(s, t)
          PROVE  SA!TypeOK' /\ SA!Promise'
      <3>1. t # NoSession
        BY NobodyHasNoTerms
      <3>2. sess' \in [SessionIds -> SA!Terms \cup {NoSession}]
        BY <2>5 DEF SA!Grant
      <3>3. \A r \in SessionIds : sess'[r] = IF r = s THEN t ELSE sess[r]
        BY <2>5 DEF SA!Grant
      <3>4. sess[s] = NoSession /\ live' = live \cup {s} /\ passing' = passing
            /\ {x \in Parties : Online(x)}' = {x \in Parties : Online(x)}
            /\ {t.ctl, t.dev} \subseteq {x \in Parties : Online(x)}
            /\ (t.input => t.mode = "view-control")
        BY <2>5 DEF SA!Grant
      <3>5. SA!TypeOK'
        BY <3>2, <3>4
      <3>6. SA!Promise'
        BY <3>1, <3>3, <3>4
      <3> QED BY <3>5, <3>6
    <2>6. ASSUME NEW m \in [sid: SessionIds, from: Parties, kind: AllKinds],
                 SA!Pass(m) \/ SA!Passed(m)
          PROVE  SA!TypeOK' /\ SA!Promise'
      BY <2>6 DEF SA!Pass, SA!Passed
    <2> QED BY <2>1, <2>2, <2>3, <2>4, <2>5, <2>6 DEF SA!Next
  <1> QED BY <1>1, <1>2, PTL DEF SA!Spec

\* What holds of the authority holds of the relay that implements it: both
\* parties of a session are registered, and every message on its way in a
\* handler has the grant it needs.
THEOREM RelayKeepsPromise == Spec => []SA!Promise
  BY RelayImplementsAuthority, AuthorityPromise, PTL DEF SessionAuthoritySpec

\* A session that is over never comes back, and its terms never change.
THEOREM SessionsEndForGood == Spec => SA!EndedForGood
  <1>1. SA!TypeOK /\ [SA!Next]_SA!vars =>
          [\A s \in SessionIds : sess[s] # NoSession =>
             sess'[s] = sess[s] /\ (s \in live' => s \in live)]_SA!vars
    BY DEF SA!Next, SA!TypeOK, SA!Join, SA!Leave, SA!Grant, SA!End, SA!Pass, SA!Passed
  <1> QED BY <1>1, RelayImplementsAuthority, AuthorityPromise, PTL
          DEF SessionAuthoritySpec, SA!Spec, SA!EndedForGood

-----------------------------------------------------------------------------
\* Everything that readers, closers and handlers rely on between two critical
\* sections holds, whatever runs in between.
THEOREM RelayRelies == Spec => []IInv
  <1>1. Typed /\ Registry /\ Held /\ CodesInUse /\ Admission /\ SessionPartiesOnline
          /\ Announcements => IInv
    BY DEF IInv
  <1> QED BY <1>1, TypedAlways, RegistryAlways, HeldAlways, CodesInUseAlways, AdmissionAlways,
             SessionsHaveBothParties, AnnouncementsAlways, PTL
=============================================================================
