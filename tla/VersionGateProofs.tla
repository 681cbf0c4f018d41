-------------------------- MODULE VersionGateProofs --------------------------
(***************************************************************************)
(* What the version gates guarantee, proved for any number of handlers, any  *)
(* set of versions and any number of failing probes.  Both theorems rest on   *)
(* where a remembered version comes from: the server has reported it, and      *)
(* since upgrades take nothing back, what was recent enough then still is.     *)
(***************************************************************************)
EXTENDS VersionGate, TLAPS

\* The comparison of three numbers is the order of versions.
LEMMA AtLeastIsNotBefore ==
  ASSUME NEW v \in Versions
  PROVE  ServerVersionAtLeast(v) <=> ~Before(v)
<1>1. /\ v # Unparsable
      /\ v[1] \in Nat /\ v[2] \in Nat /\ v[3] \in Nat
  BY VersionAssumption
<1>2. Before(v) <=> \/ v[1] < 1
                    \/ v[2] < 3 /\ v[1] = 1
                    \/ v[3] < 1 /\ v[1] = 1 /\ v[2] = 3
  <2> DEFINE P(i) == v[i] < Since[i] /\ \A j \in 1 .. i - 1 : v[j] = Since[j]
  <2>1. 1 .. 3 = {1, 2, 3} /\ 1 .. 1 - 1 = {} /\ 1 .. 2 - 1 = {1} /\ 1 .. 3 - 1 = {1, 2}
    OBVIOUS
  <2>2. Since[1] = 1 /\ Since[2] = 3 /\ Since[3] = 1
    BY DEF Since
  <2>3. Before(v) <=> P(1) \/ P(2) \/ P(3)
    BY <2>1 DEF Before
  <2>4. /\ P(1) <=> v[1] < 1
        /\ P(2) <=> v[2] < 3 /\ v[1] = 1
        /\ P(3) <=> v[3] < 1 /\ v[1] = 1 /\ v[2] = 3
    BY <2>1, <2>2
  <2> QED
    BY <2>3, <2>4
<1> QED
  BY <1>1, <1>2 DEF ServerVersionAtLeast

\* What a server accepts that reports a version.
LEMMA ServerAccepts ==
  ASSUME server \in Servers, server.says # Unparsable
  PROVE  server.says \in Versions /\ server.accepts = ~Before(server.says)
  BY DEF Servers

LEMMA ServerSays ==
  ASSUME server \in Servers
  PROVE  server.says \in Known
  BY DEF Servers, Known

-----------------------------------------------------------------------------
\* Every state of the gates is well typed, whatever is reported and whoever asks at
\* the same time: in particular no version that cannot be parsed is ever remembered.
THEOREM TypeCorrect == Spec => []TypeOK
<1>1. Init => TypeOK
  <2> SUFFICES ASSUME Init PROVE TypeOK
    OBVIOUS
  <2>1. failures \in 0 .. MaxFailures
    BY FailureAssumption DEF Init
  <2>2. \A h \in Handlers : pc[h] = "idle"
    BY DEF Init
  <2> QED
    BY <2>1, <2>2 DEF Init, TypeOK
<1>2. TypeOK /\ [Next]_vars => TypeOK'
  <2> SUFFICES ASSUME TypeOK, [Next]_vars PROVE TypeOK'
    OBVIOUS
  <2> USE VersionAssumption, FailureAssumption DEF TypeOK, Known
  <2>0. ASSUME Failure PROVE failures' \in 0 .. MaxFailures
    BY <2>0 DEF Failure
  <2>1. CASE Detect
    <3>1. version' \in Versions \cup {Null}
      BY <2>1, ServerSays DEF Detect, Remembered, ValidServerVersion
    <3>2. told' \subseteq Known /\ failures' \in 0 .. MaxFailures
      BY <2>0, <2>1, ServerSays DEF Detect, Told
    <3> QED
      BY <2>1, <3>1, <3>2 DEF Detect
  <2>2. CASE Upgrade
    BY <2>2 DEF Upgrade, client
  <2>3. ASSUME NEW h \in Handlers, Arrive(h) PROVE TypeOK'
    BY <2>3 DEF Arrive, client
  <2>4. ASSUME NEW h \in Handlers, PassOpen(h) PROVE TypeOK'
    BY <2>4 DEF PassOpen, client
  <2>5. ASSUME NEW h \in Handlers, Resolve(h) PROVE TypeOK'
    BY <2>5 DEF Resolve, client
  <2>6. ASSUME NEW h \in Handlers, Probe(h) PROVE TypeOK'
    <3>1. server.says # Null
      BY ServerSays
    <3>2. told' \subseteq Known /\ failures' \in 0 .. MaxFailures
      BY <2>0, <2>6, ServerSays DEF Probe, Told
    <3>3. held' \in [Handlers -> Known \cup {Null}] /\ failed' \in [Handlers -> BOOLEAN]
      BY <2>6, ServerSays DEF Probe
    <3>4. /\ pc' \in [Handlers -> {"idle", "look", "probe", "store", "compare", "send",
                                    "passed", "refused"}]
          /\ \A g \in Handlers : pc'[g] \in {"store", "compare"} => held'[g] # Null
      BY <2>6, <3>1 DEF Probe
    <3> QED
      BY <2>6, <3>2, <3>3, <3>4 DEF Probe, client
  <2>7. ASSUME NEW h \in Handlers, Store(h) PROVE TypeOK'
    BY <2>7 DEF Store, Remembered, ValidServerVersion
  <2>8. ASSUME NEW h \in Handlers, CheckSupported(h) PROVE TypeOK'
    BY <2>8 DEF CheckSupported, client
  <2>9. ASSUME NEW h \in Handlers, Send(h) PROVE TypeOK'
    BY <2>9 DEF Send, client
  <2>10. CASE UNCHANGED vars
    BY <2>10 DEF vars, client
  <2> QED
    BY <2>1, <2>2, <2>3, <2>4, <2>5, <2>6, <2>7, <2>8, <2>9, <2>10 DEF Next
<1> QED
  BY <1>1, <1>2, PTL DEF Spec

-----------------------------------------------------------------------------
\* A version is recent enough only if the server accepts what is restricted.
Sound(v) == ServerVersionAtLeast(v) => server.accepts

\* Every version that is remembered or held is sound, and so is who passes.
SoundInv ==
  /\ version # Null => Sound(version)
  /\ \A h \in Handlers : held[h] # Null => Sound(held[h])
  /\ ClosedGatesHold

\* What the server says is sound.
LEMMA SaysSound ==
  ASSUME server \in Servers
  PROVE  Sound(server.says)
  BY ServerAccepts, AtLeastIsNotBefore DEF Sound, ServerVersionAtLeast

\* A closed gate lets nothing pass that the server does not accept, whichever probes
\* failed and whenever the server was upgraded.
THEOREM ClosedGatesAlwaysHold == Spec => []ClosedGatesHold
<1>1. Init => SoundInv
  BY DEF Init, SoundInv, ClosedGatesHold
<1>2. TypeOK /\ SoundInv /\ [Next]_vars => SoundInv'
  <2> SUFFICES ASSUME TypeOK, SoundInv, [Next]_vars PROVE SoundInv'
    OBVIOUS
  <2> USE DEF SoundInv, ClosedGatesHold, Sound, ServerVersionAtLeast
  <2>0. server \in Servers /\ pc \in [Handlers -> {"idle", "look", "probe", "store", "compare",
                                                   "send", "passed", "refused"}]
        /\ held \in [Handlers -> Known \cup {Null}] /\ gate \in [Handlers -> {"open", "closed"}]
        /\ \A h \in Handlers : pc[h] \in {"store", "compare"} => held[h] # Null
    BY DEF TypeOK
  <2>1. CASE Detect
    BY <2>0, <2>1, SaysSound DEF Detect, Remembered
  <2>2. CASE Upgrade
    BY <2>0, <2>2 DEF Upgrade, client
  <2>3. ASSUME NEW h \in Handlers, Arrive(h) PROVE SoundInv'
    BY <2>0, <2>3 DEF Arrive, client
  <2>4. ASSUME NEW h \in Handlers, PassOpen(h) PROVE SoundInv'
    BY <2>0, <2>4 DEF PassOpen, client
  <2>5. ASSUME NEW h \in Handlers, Resolve(h) PROVE SoundInv'
    BY <2>0, <2>5 DEF Resolve, client
  <2>6. ASSUME NEW h \in Handlers, Probe(h) PROVE SoundInv'
    BY <2>0, <2>6, SaysSound DEF Probe, client
  <2>7. ASSUME NEW h \in Handlers, Store(h) PROVE SoundInv'
    BY <2>0, <2>7 DEF Store, Remembered
  <2>8. ASSUME NEW h \in Handlers, CheckSupported(h) PROVE SoundInv'
    BY <2>0, <2>8 DEF CheckSupported, Passes, client
  <2>9. ASSUME NEW h \in Handlers, Send(h) PROVE SoundInv'
    BY <2>0, <2>9 DEF Send, client
  <2>10. CASE UNCHANGED vars
    BY <2>10 DEF vars, client
  <2> QED
    BY <2>1, <2>2, <2>3, <2>4, <2>5, <2>6, <2>7, <2>8, <2>9, <2>10 DEF Next
<1>3. SoundInv => ClosedGatesHold
  BY DEF SoundInv
<1> QED
  BY <1>1, <1>2, <1>3, TypeCorrect, PTL DEF Spec

-----------------------------------------------------------------------------
\* Every version that is remembered or held has been reported, only a closed gate
\* probes, and who is refused is refused for a reason.
ReportedInv ==
  /\ version # Null => version \in told
  /\ \A h \in Handlers :
       /\ held[h] # Null => held[h] \in told
       /\ pc[h] \in {"probe", "store", "compare"} => gate[h] = "closed"
  /\ RefusalsJustified

\* A failed probe blocks nothing at an open gate, and a closed one refuses only after a
\* version that is too old, a probe of its own that failed, or a version that
\* cannot be parsed.
THEOREM RefusalsAreJustified == Spec => []RefusalsJustified
<1>1. Init => ReportedInv
  BY DEF Init, ReportedInv, RefusalsJustified
<1>2. TypeOK /\ ReportedInv /\ [Next]_vars => ReportedInv'
  <2> SUFFICES ASSUME TypeOK, ReportedInv, [Next]_vars PROVE ReportedInv'
    OBVIOUS
  <2> USE DEF ReportedInv, RefusalsJustified
  <2>0. version \in Versions \cup {Null}
        /\ pc \in [Handlers -> {"idle", "look", "probe", "store", "compare",
                                "send", "passed", "refused"}]
        /\ held \in [Handlers -> Known \cup {Null}] /\ gate \in [Handlers -> {"open", "closed"}]
        /\ failed \in [Handlers -> BOOLEAN]
        /\ \A h \in Handlers : pc[h] \in {"store", "compare"} => held[h] # Null
    BY DEF TypeOK
  <2>1. CASE Detect
    BY <2>0, <2>1 DEF Detect, Remembered, Told
  <2>2. CASE Upgrade
    BY <2>0, <2>2 DEF Upgrade, client
  <2>3. ASSUME NEW h \in Handlers, Arrive(h) PROVE ReportedInv'
    BY <2>0, <2>3 DEF Arrive, client
  <2>4. ASSUME NEW h \in Handlers, PassOpen(h) PROVE ReportedInv'
    <3>1. pc'[h] = "refused" => version \in told \ {Unparsable} /\ Before(version)
      BY <2>0, <2>4, AtLeastIsNotBefore, VersionAssumption DEF PassOpen, AtLeast
    <3> QED
      BY <2>0, <2>4, <3>1 DEF PassOpen, client
  <2>5. ASSUME NEW h \in Handlers, Resolve(h) PROVE ReportedInv'
    BY <2>0, <2>5 DEF Resolve, client
  <2>6. ASSUME NEW h \in Handlers, Probe(h) PROVE ReportedInv'
    BY <2>0, <2>6 DEF Probe, Told, client
  <2>7. ASSUME NEW h \in Handlers, Store(h) PROVE ReportedInv'
    BY <2>0, <2>7 DEF Store, Remembered
  <2>8. ASSUME NEW h \in Handlers, CheckSupported(h) PROVE ReportedInv'
    <3>1. held[h] \in told /\ gate[h] = "closed"
      BY <2>0, <2>8 DEF CheckSupported
    <3>2. pc'[h] = "refused" => held[h] = Unparsable \/ Before(held[h])
      BY <2>0, <2>8, AtLeastIsNotBefore, VersionAssumption DEF CheckSupported, Passes, Known
    <3> QED
      BY <2>0, <2>8, <3>1, <3>2 DEF CheckSupported, client
  <2>9. ASSUME NEW h \in Handlers, Send(h) PROVE ReportedInv'
    BY <2>0, <2>9 DEF Send, client
  <2>10. CASE UNCHANGED vars
    BY <2>10 DEF vars, client
  <2> QED
    BY <2>1, <2>2, <2>3, <2>4, <2>5, <2>6, <2>7, <2>8, <2>9, <2>10 DEF Next
<1>3. ReportedInv => RefusalsJustified
  BY DEF ReportedInv
<1> QED
  BY <1>1, <1>2, <1>3, TypeCorrect, PTL DEF Spec
=============================================================================
