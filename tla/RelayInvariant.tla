--------------------------- MODULE RelayInvariant ---------------------------
(***************************************************************************)
(* The inductive invariant of Relay: what every reader, closer and handler *)
(* may rely on between two critical sections.  Each part says what the     *)
(* local variables of a handler in flight still mean.                      *)
(***************************************************************************)
EXTENDS Relay

\* Where the readers are: a connection has its device id wherever a handler
\* needs one (anybody may try to forward a message), a visitor its link, and
\* only a visitor goes through the visitor's places.
Places ==
  /\ \A c \in Conns : /\ pc[c] \notin {"idle", "ended", "route", "target", "deliver"} =>
                           devId[c] \in Devices
                      /\ pc[c] \notin WebPCs \cup {"none"}
  /\ \A p \in Peers : /\ shareOf[p] = None <=> pc[p] = "none"
                      /\ pc[p] \in WebPCs \cup {"none", "idle", "ended",
                                                "store", "send", "target", "deliver"}

\* The locals that a handler uses as keys are there.
Locals ==
  \A x \in Actors : /\ pc[x] = "confirm" => arg[x].to \in Parties
                    /\ pc[x] = "route" => arg[x].sid \in SessionIds

\* A link that was ever made, which is any that a visitor follows, keeps its
\* device.
Links ==
  /\ \A t \in Tokens : share[t].st # "unused" => share[t].dev \in Devices
  /\ \A p \in Peers : shareOf[p] # None => share[shareOf[p]].st # "unused"

Typed == TypeOK /\ Places /\ Locals /\ Links

\* A connection whose registration was decided.  The registry and a register
\* that evicts only ever hold such connections, and the registry under the
\* id they registered with.
Decided(c) == devId[c] # None /\ pc[c] # "register"

Registry ==
  /\ \A c \in Conns : pc[c] = "evict" => arg[c].conn \in Conns /\ Decided(arg[c].conn)
  /\ \A d \in Devices : clients[d] # None => Decided(clients[d]) /\ devId[clients[d]] = d

-----------------------------------------------------------------------------
(* What a handler holds between two sections still means what it did: what *)
(* it rests on never changes again once it is there.                       *)

\* A connection only ever has the id of its program.
Identity == \A c \in Conns : devId[c] \in {None, DeviceOf[c]}

\* A visitor's request only ever reaches connections of the device that made
\* the link it follows.
AskedByLink ==
  \A c \in Conns, p \in Peers : p \in asked[c] =>
    pc[p] # "none" /\ devId[c] = share[shareOf[p]].dev

\* The terms of a session name two parties, and a visitor only with the
\* device of its link.
SessionTerms ==
  \A s \in SessionIds : sess[s] # NoSession =>
    /\ sess[s].ctl \in Parties /\ sess[s].dev \in Devices
    /\ sess[s].input => sess[s].mode = "view-control"
    /\ sess[s].ctl \in Peers =>
         pc[sess[s].ctl] # "none" /\ sess[s].dev = share[shareOf[sess[s].ctl]].dev

\* A request in flight goes to a connection of the device it names, and a
\* visitor asks only the device of its link.
RequestHeld(x) ==
  pc[x] \in {"auth", "insert", "store", "send"} =>
    /\ arg[x].to \in Devices /\ arg[x].conn \in Conns
    /\ devId[arg[x].conn] = arg[x].to
    /\ x \in Peers => arg[x].to = share[shareOf[x]].dev

\* A confirmation in progress is for a controller that asked this device, and
\* then for the session that was made for the two.
ConfirmHeld(x) ==
  /\ pc[x] \in {"confirm", "create"} => AskedDevice(x, arg[x].to)
  /\ pc[x] \in {"readyCtl", "readyDev"} =>
       LET s == arg[x].sid IN
       /\ s \in SessionIds /\ sess[s] # NoSession
       /\ sess[s].ctl = arg[x].to /\ sess[s].dev = devId[x]

\* A message being forwarded still has the grant it was checked against, and
\* goes from one party of its session to the other.
MessageHeld(x) ==
  LET s == arg[x].sid IN
  /\ pc[x] \in {"route", "target", "deliver"} =>
       /\ s \in SessionIds /\ sess[s] # NoSession
       /\ arg[x].kind = "input" => sess[s].input
       /\ arg[x].kind \in {"input", "control"} => Self(x) = sess[s].ctl
  /\ pc[x] \in {"target", "deliver"} =>
       \/ Self(x) = sess[s].ctl /\ arg[x].to = sess[s].dev
       \/ Self(x) = sess[s].dev /\ arg[x].to = sess[s].ctl /\ arg[x].kind = "frame"
  /\ pc[x] = "deliver" =>
       IF arg[x].to \in Devices
       THEN arg[x].conn \in Conns /\ devId[arg[x].conn] = arg[x].to
       ELSE arg[x].conn = arg[x].to

Sound(x) == RequestHeld(x) /\ ConfirmHeld(x) /\ MessageHeld(x)

Held == Identity /\ AskedByLink /\ SessionTerms /\ \A x \in Actors : Sound(x)

-----------------------------------------------------------------------------
\* The code of a request counts as used up from "store" on; no code waits at
\* two connections, and visitors ask without one.
CodesInUse ==
  /\ OneRequestPerCode
  /\ \A a, b \in Conns : authCode[a] = authCode[b] /\ authCode[a] # None => a = b
  /\ \A p \in Peers : pc[p] \in {"insert", "store", "send"} => arg[p].code = None

\* A visitor is registered, and has a request pending, only on its way
\* through admission, reading and leaving.
Admitted == {"send", "idle", "target", "deliver", "leaving"}
Admission ==
  /\ \A p \in webPeers : pc[p] \in Admitted \cup {"store"}
  /\ \A p \in Peers, d \in Devices : pending[<<p, d>>] # None => pc[p] \in Admitted

\* Whoever was told that a session is ready is one of its parties; whoever
\* was told that one ended was told so of one that did.
Announcements ==
  \A x \in Actors, s \in SessionIds :
    /\ told[x][s] = "ready" => sess[s] # NoSession /\ Self(x) \in {sess[s].ctl, sess[s].dev}
    /\ told[x][s] = "closed" => sess[s] # NoSession /\ s \notin live

IInv == /\ Typed /\ Registry /\ Held /\ CodesInUse /\ Admission
        /\ SessionPartiesOnline /\ Announcements

-----------------------------------------------------------------------------
(* What a step may not do.                                                 *)

\* The sections that a handler at l can still have before it.
SectionsLeft(l) ==
  CASE l \in {"idle", "ended"} -> 0
    [] l \in {"leaving", "evict", "readyDev", "deliver"} -> 1
    [] l \in {"register", "send", "readyCtl", "target"} -> 2
    [] l \in {"store", "create", "route"} -> 3
    [] l \in {"auth", "insert", "confirm"} -> 4
    [] l = "lookup" -> 5
    [] l = "check" -> 6
    [] l = "none" -> 7

\* No handler goes round in circles, whatever the others do: between two
\* messages a reader only comes nearer to its return, and one that has
\* ended handles nothing any more (server.go:226-612, webpeer.go:57-160).
HandlersAdvance ==
  [][\A x \in Actors : pc'[x] # pc[x] =>
       \/ pc[x] = "idle"
       \/ SectionsLeft(pc'[x]) < SectionsLeft(pc[x])]_vars

\* close() happens once: no connection comes back from it, and silence is
\* all that a read can undo (client.go:103-109).
Stage(st) == CASE st \in {"open", "quiet"} -> 1 [] st = "closing" -> 2 [] st = "closed" -> 3
CloseIsFinal ==
  [][\A c \in Conns : Stage(connState[c]) <= Stage(connState'[c])]_vars
=============================================================================
