-------------------------- MODULE SessionAuthority --------------------------
(***************************************************************************)
(* What the relay promises about sessions, without connections, locks or   *)
(* handlers: a session is granted only while both parties are online, its  *)
(* terms never change, it ends for good, and it ends at the latest when a  *)
(* party goes offline.  A message is passed on only between the parties of *)
(* a granted session, and input only from the controller of a session that *)
(* allows it.  Passing may outlast the session: the relay looks a session  *)
(* up and delivers later.                                                  *)
(***************************************************************************)
CONSTANTS
  Parties,     \* whoever may be a party of a session
  SessionIds,  \* session ids
  Nobody,      \* the terms of a session that was not granted yet
  AllKinds     \* kinds of messages; "input" is one

VARIABLES
  online,   \* the parties that are online
  terms,    \* session id -> [ctl, dev, mode, input], or Nobody
  live,     \* the granted sessions that have not ended
  passing   \* the messages being passed on: [sid, from, kind]

vars == <<online, terms, live, passing>>

PartiesOf(s) == {terms[s].ctl, terms[s].dev}

Init == /\ online = {} /\ live = {} /\ passing = {}
        /\ terms = [s \in SessionIds |-> Nobody]

Join(x) == /\ online' = online \cup {x}
           /\ UNCHANGED <<terms, live, passing>>

\* The sessions of x end; x itself may go offline or stay.
Leave(x) == /\ online' \in {online, online \ {x}}
            /\ live' = {s \in live : x \notin PartiesOf(s)}
            /\ UNCHANGED <<terms, passing>>

Grant(s, t) ==
  /\ terms[s] = Nobody /\ {t.ctl, t.dev} \subseteq online
  /\ t.input => t.mode = "view-control"
  /\ terms' = [terms EXCEPT ![s] = t]
  /\ live' = live \cup {s}
  /\ UNCHANGED <<online, passing>>

End(s) == /\ live' = live \ {s}
          /\ UNCHANGED <<online, terms, passing>>

Pass(m) ==
  /\ terms[m.sid] # Nobody /\ m.from \in PartiesOf(m.sid)
  /\ m.kind \in {"input", "control"} => m.from = terms[m.sid].ctl
  /\ m.kind = "input" => terms[m.sid].input
  /\ passing' = passing \cup {m}
  /\ UNCHANGED <<online, terms, live>>

Passed(m) == /\ passing' = passing \ {m}
             /\ UNCHANGED <<online, terms, live>>

Terms == [ctl: Parties, dev: Parties, mode: {"view", "view-control"}, input: BOOLEAN]

Next ==
  \/ \E x \in Parties : Join(x) \/ Leave(x)
  \/ \E s \in SessionIds : End(s) \/ \E t \in Terms : Grant(s, t)
  \/ \E m \in [sid: SessionIds, from: Parties, kind: AllKinds] : Pass(m) \/ Passed(m)

Spec == Init /\ [][Next]_vars

-----------------------------------------------------------------------------
TypeOK == /\ online \subseteq Parties /\ live \subseteq SessionIds
          /\ terms \in [SessionIds -> Terms \cup {Nobody}]
          /\ passing \subseteq [sid: SessionIds, from: Parties, kind: AllKinds]

\* What a user may conclude: a session that has not ended has both its
\* parties online, one that allows input was granted as "view-control", and
\* whatever is on its way has the grant it needs.
Promise ==
  /\ \A s \in live : terms[s] # Nobody /\ PartiesOf(s) \subseteq online
  /\ \A s \in SessionIds :
       terms[s] # Nobody /\ terms[s].input => terms[s].mode = "view-control"
  /\ \A m \in passing :
       /\ terms[m.sid] # Nobody /\ m.from \in PartiesOf(m.sid)
       /\ m.kind \in {"input", "control"} => m.from = terms[m.sid].ctl
       /\ m.kind = "input" => terms[m.sid].input

\* A session that is over is over for good, and its terms stay what they were.
EndedForGood ==
  [][\A s \in SessionIds : terms[s] # Nobody =>
       terms'[s] = terms[s] /\ (s \in live' => s \in live)]_vars
=============================================================================
