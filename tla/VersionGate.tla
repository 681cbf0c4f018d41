----------------------------- MODULE VersionGate -----------------------------
(***************************************************************************)
(* The gates in front of what only Gravitino 1.3.1 and later accepts           *)
(* (src/internal/client/server_version.go and version.go).  Configure asks for  *)
(* the version of the server once and goes on without an answer.  An open gate   *)
(* (external data types) then lets everything pass; a closed one (object types,   *)
(* policies, indexes) asks again, and refuses as long as it does not know.        *)
(* Handlers of many resources stand at the gates at once and share the version     *)
(* the client remembers, each access to which takes its lock; the server may be     *)
(* upgraded at any time.                                                         *)
(***************************************************************************)
EXTENDS Naturals

CONSTANTS Handlers,     \* goroutines of concurrent handlers
          Versions,     \* versions <<major, minor, patch>> the server may report
          Unparsable,   \* a version that is no such triple
          Null,
          MaxFailures   \* bound on probes that fail

ASSUME VersionAssumption ==
  /\ Versions \subseteq Nat \X Nat \X Nat
  /\ Unparsable \notin Versions /\ Null \notin Versions /\ Null # Unparsable
ASSUME FailureAssumption == MaxFailures \in Nat

VARIABLES server,      \* what it reports, and whether it accepts what is restricted
          configured,  \* whether Configure has returned
          version,     \* what the client remembers, or Null
          pc, gate,    \* of each handler: where it is, and at which gate
          held,        \* of each handler: the version it has been answered with
          failed,      \* history, of each handler: its probe failed
          told,        \* history: versions reported so far
          failures     \* counter of the bound

client == <<configured, version>>
vars == <<server, client, pc, gate, held, failed, told, failures>>

\* ServerVersionAtLeast for 1.3.1, and for three components compared one by one as a
\* mutation run does.
AtLeastInEach(v) == v # Unparsable /\ v[1] >= 1 /\ v[2] >= 3 /\ v[3] >= 1
ServerVersionAtLeast(v) ==
  /\ v # Unparsable
  /\ IF v[1] # 1 THEN v[1] > 1
     ELSE IF v[2] # 3 THEN v[2] > 3 ELSE v[3] >= 1
ValidServerVersion(v) == v # Unparsable

\* Gravitino: everything from 1.3.1 on accepts what is restricted; of a build that
\* reports no version nobody knows.
Since == <<1, 3, 1>>
Before(v) == \E i \in 1 .. 3 : v[i] < Since[i] /\ \A j \in 1 .. i - 1 : v[j] = Since[j]
Servers == {[says |-> v, accepts |-> ~Before(v)] : v \in Versions}
             \cup [says : {Unparsable}, accepts : BOOLEAN]

Init == /\ server \in Servers
        /\ configured = FALSE /\ version = Null
        /\ pc = [h \in Handlers |-> "idle"] /\ gate = [h \in Handlers |-> "open"]
        /\ held = [h \in Handlers |-> Null] /\ failed = [h \in Handlers |-> FALSE]
        /\ told = {} /\ failures = 0

-----------------------------------------------------------------------------
\* What GET /version answers, remembered if it is a version; a mutation run remembers
\* it anyway.
RememberedAnyway(v) == v
Remembered(v) == IF ValidServerVersion(v) THEN v ELSE version
Told == told' = told \cup {server.says}
Failure == failures < MaxFailures /\ failures' = failures + 1

\* DetectServerVersion in Configure, whose failure is only logged.
Detect ==
  /\ ~configured /\ configured' = TRUE
  /\ \/ version' = Remembered(server.says) /\ Told /\ UNCHANGED failures
     \/ Failure /\ UNCHANGED <<version, told>>
  /\ UNCHANGED <<server, pc, gate, held, failed>>

\* A handler with a restricted value comes to its gate; anything else passes both.
Arrive(h) ==
  /\ configured /\ pc[h] \in {"idle", "passed", "refused"}
  /\ \E g \in {"open", "closed"} : gate' = [gate EXCEPT ![h] = g]
  /\ pc' = [pc EXCEPT ![h] = "look"]
  /\ held' = [held EXCEPT ![h] = Null] /\ failed' = [failed EXCEPT ![h] = FALSE]
  /\ UNCHANGED <<server, client, told, failures>>

\* AtLeast, of an open gate: a version nobody knows is recent enough.
AtLeast == version = Null \/ ServerVersionAtLeast(version)
PassOpen(h) ==
  /\ pc[h] = "look" /\ gate[h] = "open"
  /\ pc' = [pc EXCEPT ![h] = IF AtLeast THEN "send" ELSE "refused"]
  /\ UNCHANGED <<server, client, gate, held, failed, told, failures>>

\* ResolveServerVersion, of a closed one: the version that is remembered, or one more
\* probe.
Resolve(h) ==
  /\ pc[h] = "look" /\ gate[h] = "closed"
  /\ held' = [held EXCEPT ![h] = version]
  /\ pc' = [pc EXCEPT ![h] = IF version = Null THEN "probe" ELSE "compare"]
  /\ UNCHANGED <<server, client, gate, failed, told, failures>>
Probe(h) ==
  /\ pc[h] = "probe"
  /\ \/ /\ held' = [held EXCEPT ![h] = server.says] /\ Told
        /\ pc' = [pc EXCEPT ![h] = "store"] /\ UNCHANGED <<failed, failures>>
     \/ /\ Failure /\ failed' = [failed EXCEPT ![h] = TRUE]
        /\ pc' = [pc EXCEPT ![h] = "refused"] /\ UNCHANGED <<held, told>>
  /\ UNCHANGED <<server, client, gate>>
Store(h) ==
  /\ pc[h] = "store"
  /\ version' = Remembered(held[h])
  /\ pc' = [pc EXCEPT ![h] = "compare"]
  /\ UNCHANGED <<server, configured, gate, held, failed, told, failures>>

\* The three checks of version.go; a mutation run lets pass what it does not know.
PassesUnknown(v) == ~ValidServerVersion(v) \/ ServerVersionAtLeast(v)
Passes(v) == ServerVersionAtLeast(v)
CheckSupported(h) ==
  /\ pc[h] = "compare"
  /\ pc' = [pc EXCEPT ![h] = IF Passes(held[h]) THEN "send" ELSE "refused"]
  /\ UNCHANGED <<server, client, gate, held, failed, told, failures>>

\* The request itself.
Send(h) ==
  /\ pc[h] = "send"
  /\ pc' = [pc EXCEPT ![h] = "passed"]
  /\ UNCHANGED <<server, client, gate, held, failed, told, failures>>

\* An upgrade takes nothing back.
Upgrade ==
  /\ server' \in {s \in Servers \ {server} : server.accepts => s.accepts}
  /\ UNCHANGED <<client, pc, gate, held, failed, told, failures>>

Next == \/ Detect \/ Upgrade
        \/ \E h \in Handlers : \/ Arrive(h) \/ PassOpen(h) \/ Resolve(h) \/ Probe(h)
                               \/ Store(h) \/ CheckSupported(h) \/ Send(h)
Spec == Init /\ [][Next]_vars

-----------------------------------------------------------------------------
(* Properties.                                                             *)

Known == Versions \cup {Unparsable}

TypeOK ==
  /\ server \in Servers /\ configured \in BOOLEAN
  /\ version \in Versions \cup {Null}
  /\ pc \in [Handlers -> {"idle", "look", "probe", "store", "compare", "send",
                          "passed", "refused"}]
  /\ gate \in [Handlers -> {"open", "closed"}]
  /\ held \in [Handlers -> Known \cup {Null}]
  /\ \A h \in Handlers : pc[h] \in {"store", "compare"} => held[h] # Null
  /\ failed \in [Handlers -> BOOLEAN] /\ told \subseteq Known
  /\ failures \in 0 .. MaxFailures

\* server_version.go:14-22: a restricted value is never sent through a closed gate to a
\* server that does not accept it, whichever probes failed, whoever probes at the same
\* time and whenever the server is upgraded.
ClosedGatesHold ==
  \A h \in Handlers : pc[h] = "send" /\ gate[h] = "closed" => server.accepts

\* A failed probe never blocks what passes an open gate: it refuses only what a server
\* has reported a version for that is too old.  A closed gate refuses for no other
\* reason than that, a probe of its own that failed, or a version nobody can parse.
RefusalsJustified ==
  \A h \in Handlers : pc[h] = "refused" =>
    \/ \E v \in told \ {Unparsable} : Before(v)
    \/ gate[h] = "closed" /\ (failed[h] \/ Unparsable \in told)
=============================================================================
