---------------------------- MODULE ControlProofs ----------------------------
(***************************************************************************)
(* Proofs about what operators use: the control plane's configuration with *)
(* the signer cached next to it, and the terminal sessions, for every set  *)
(* of requests, providers, sessions and clients and every bound.           *)
(***************************************************************************)
EXTENDS ControlPlane, TerminalSessions, TLAPS

\* Which record a reload holds decides what it may do.
LEMMA ReloadFields ==
    ASSUME CPTypeOK
    PROVE  /\ reload.pc = "replace" => reload.cfg \in Configs
           /\ NoReload \in [pc : {"idle", "flag", "read"}]
BY DEF CPTypeOK, NoReload

\* The configurations a step makes have the fields of one.
LEMMA ConfigFields ==
    ASSUME NEW c \in Configs, NEW n \in Nat
    PROVE  /\ [c EXCEPT !.setting = n] \in Configs
           /\ [c EXCEPT !.setting = n].secret = c.secret
           /\ [c EXCEPT !.hash = n, !.secret = 0] \in Configs
           /\ [c EXCEPT !.hash = n] \in Configs
           /\ [c EXCEPT !.secret = n] \in Configs
           /\ [c EXCEPT !.secret = n].secret = n
BY DEF Configs

LEMMA ProviderFields ==
    ASSUME NEW c \in Configs, NEW P \in SUBSET Providers
    PROVE  /\ [c EXCEPT !.providers = P] \in Configs
           /\ [c EXCEPT !.providers = P].secret = c.secret
BY DEF Configs

\* Empty is a configuration, and a missing file is none.
LEMMA EmptyConfig == Empty \in Configs /\ Empty.secret = 0
BY DEF Empty, Configs

CPInv == CPTypeOK /\ SignerIsCurrent

LEMMA CPInvInit == CPInit => CPInv
<1> SUFFICES ASSUME CPInit PROVE CPInv
  OBVIOUS
<1>1. mem \in Configs
  BY DEF CPInit, Configs
<1>2. request \in [Requests -> {"start", "delete", "save", "saveThenSign", "sign"}]
  BY DEF CPInit
<1>3. reload \in [pc : {"idle", "flag", "read"}]
  BY DEF CPInit, NoReload
<1>4. signer = 0 /\ skip \in BOOLEAN /\ changed \in BOOLEAN /\ saving = 0 /\ disk = mem
      /\ fresh \in Nat /\ fileEdits \in Nat
  BY DEF CPInit
<1> QED BY <1>1, <1>2, <1>3, <1>4 DEF CPInv, CPTypeOK, SignerIsCurrent

LEMMA RequestsTyped ==
    ASSUME CPTypeOK, NEW r \in Requests,
           NEW pc \in {"start", "delete", "save", "saveThenSign", "sign"}, Goto(r, pc)
    PROVE  request' \in [Requests -> {"start", "delete", "save", "saveThenSign", "sign"}]
BY DEF Goto, CPTypeOK

\* Requests that change the copy in memory: the signer is still that of its
\* secret, or is dropped with it.
LEMMA CPInvChanges ==
    ASSUME CPInv, NEW r \in Requests,
           \/ ChangeSetting(r) \/ SetPasswordHash(r) \/ Reset(r) \/ CheckDelete(r) \/ Login(r)
           \/ \E p \in Providers : PutProvider(r, p) \/ DeleteProvider(r, p)
    PROVE  CPInv'
<1> USE DEF CPInv
<1>1. CASE ChangeSetting(r)
  <2>1. mem' \in Configs /\ mem'.secret = mem.secret /\ fresh' \in Nat
    <3>1. mem \in Configs /\ fresh + 1 \in Nat
      BY DEF CPTypeOK
    <3>2. mem' = [mem EXCEPT !.setting = fresh + 1] /\ fresh' = fresh + 1
      BY <1>1 DEF ChangeSetting
    <3> QED BY <3>1, <3>2, ConfigFields
  <2> QED BY <1>1, <2>1, RequestsTyped DEF ChangeSetting, CPTypeOK, SignerIsCurrent
<1>2. CASE SetPasswordHash(r)
  <2>1. mem' \in Configs /\ signer' = 0 /\ fresh' \in Nat
    <3>1. mem \in Configs /\ fresh + 1 \in Nat
      BY DEF CPTypeOK
    <3>2. /\ mem' = [mem EXCEPT !.hash = fresh + 1, !.secret = 0] /\ fresh' = fresh + 1
          /\ signer' = 0
      BY <1>2 DEF SetPasswordHash
    <3> QED BY <3>1, <3>2, ConfigFields
  <2> QED BY <1>2, <2>1, RequestsTyped DEF SetPasswordHash, CPTypeOK, SignerIsCurrent
<1>3. CASE Reset(r)
  BY <1>3, EmptyConfig, RequestsTyped DEF Reset, CPTypeOK, SignerIsCurrent
<1>4. CASE CheckDelete(r)
  <2>1. PICK pc \in {"start", "delete"} : Goto(r, pc)
    BY <1>4 DEF CheckDelete
  <2>2. request' \in [Requests -> {"start", "delete", "save", "saveThenSign", "sign"}]
    BY <2>1, RequestsTyped
  <2> QED BY <1>4, <2>2 DEF CheckDelete, CPTypeOK, SignerIsCurrent
<1>5. CASE Login(r)
  BY <1>5, RequestsTyped DEF Login, CPTypeOK, SignerIsCurrent
<1>6. ASSUME NEW p \in Providers, PutProvider(r, p) PROVE CPInv'
  <2>1. mem.providers \cup {p} \in SUBSET Providers
    BY DEF CPTypeOK, Configs
  <2>2. mem' \in Configs /\ mem'.secret = mem.secret /\ fresh' \in Nat
    <3>1. mem \in Configs /\ fresh + 1 \in Nat
      BY DEF CPTypeOK
    <3>2. mem' = [mem EXCEPT !.providers = mem.providers \cup {p}] /\ fresh' = fresh + 1
      BY <1>6 DEF PutProvider
    <3> QED BY <2>1, <3>1, <3>2, ProviderFields
  <2> QED BY <1>6, <2>2, RequestsTyped DEF PutProvider, CPTypeOK, SignerIsCurrent
<1>7. ASSUME NEW p \in Providers, DeleteProvider(r, p) PROVE CPInv'
  <2>1. mem.providers \ {p} \in SUBSET Providers
    BY DEF CPTypeOK, Configs
  <2>2. mem' \in Configs /\ mem'.secret = mem.secret /\ fresh' \in Nat
    BY <1>7, <2>1, ProviderFields DEF DeleteProvider, CPTypeOK
  <2> QED BY <1>7, <2>2, RequestsTyped DEF DeleteProvider, CPTypeOK, SignerIsCurrent
<1> QED BY <1>1, <1>2, <1>3, <1>4, <1>5, <1>6, <1>7

LEMMA CPInvSigns == ASSUME CPInv, NEW r \in Requests, TokenSigner(r) PROVE CPInv'
<1> USE DEF CPInv
<1>1. request' \in [Requests -> {"start", "delete", "save", "saveThenSign", "sign"}]
  BY RequestsTyped DEF TokenSigner
<1>2. saving' = saving /\ reload' = reload /\ fileEdits' = fileEdits
  BY DEF TokenSigner
<1>3. CASE /\ signer' = IF signer # 0 THEN signer ELSE mem.secret
           /\ UNCHANGED <<mem, disk, skip, changed, fresh>>
  <2>1. mem.secret \in Nat
    BY DEF CPTypeOK, Configs
  <2> QED BY <1>1, <1>2, <1>3, <2>1 DEF CPTypeOK, SignerIsCurrent
<1>4. CASE /\ mem' = [mem EXCEPT !.secret = fresh + 1] /\ fresh' = fresh + 1
           /\ signer' = fresh + 1 /\ disk' = mem' /\ skip' = TRUE /\ changed' = TRUE
  <2>1. mem' \in Configs /\ mem'.secret = fresh + 1 /\ fresh' \in Nat
    <3>1. mem \in Configs /\ fresh + 1 \in Nat
      BY DEF CPTypeOK
    <3> QED BY <1>4, <3>1, ConfigFields
  <2> QED BY <1>1, <1>2, <1>4, <2>1 DEF CPTypeOK, SignerIsCurrent
<1>5. CASE UNCHANGED <<mem, disk, signer, skip, changed, fresh>>
  BY <1>1, <1>2, <1>5 DEF CPTypeOK, SignerIsCurrent
<1> QED BY <1>3, <1>4, <1>5 DEF TokenSigner

LEMMA CPInvSaves ==
    ASSUME CPInv, NEW r \in Requests, SaveBegins(r) \/ SaveEnds(r) PROVE CPInv'
<1> USE DEF CPInv
<1>1. After(r) \in {"start", "delete", "save", "saveThenSign", "sign"}
  BY DEF After
<1>2. CASE SaveBegins(r)
  <2>1. request' \in [Requests -> {"start", "delete", "save", "saveThenSign", "sign"}]
    BY <1>1, <1>2, RequestsTyped DEF SaveBegins, CPTypeOK
  <2>2. disk' \in Configs \cup {Gone} /\ changed' \in BOOLEAN /\ saving' \in Requests \cup {0}
    BY <1>2, EmptyConfig DEF SaveBegins, CPTypeOK
  <2> QED BY <1>2, <2>1, <2>2 DEF SaveBegins, CPTypeOK, SignerIsCurrent
<1>3. CASE SaveEnds(r)
  <2>1. request' \in [Requests -> {"start", "delete", "save", "saveThenSign", "sign"}]
    BY <1>1, <1>3, RequestsTyped DEF SaveEnds
  <2> QED BY <1>3, <2>1 DEF SaveEnds, CPTypeOK, SignerIsCurrent
<1> QED BY <1>2, <1>3

\* The file: edits from outside, reloads and restarts.
LEMMA CPInvFile ==
    ASSUME CPInv,
           \/ \E f \in {"hash", "secret", "setting"} : ExternalEdit(f)
           \/ Dispatch \/ ReloadFlag \/ ReloadRead \/ ReloadReplace
           \/ \E saved \in BOOLEAN : Restarted(saved)
    PROVE  CPInv'
<1> USE DEF CPInv
<1>1. ASSUME NEW f \in {"hash", "secret", "setting"}, ExternalEdit(f) PROVE CPInv'
  <2>1. disk \in Configs /\ fresh + 1 \in Nat
    BY <1>1 DEF ExternalEdit, CPTypeOK
  <2>2. disk' \in Configs
    <3>1. CASE f = "hash"
      BY <1>1, <2>1, <3>1, ConfigFields DEF ExternalEdit
    <3>2. CASE f = "secret"
      BY <1>1, <2>1, <3>2, ConfigFields DEF ExternalEdit
    <3>3. CASE f = "setting"
      BY <1>1, <2>1, <3>3, ConfigFields DEF ExternalEdit
    <3> QED BY <3>1, <3>2, <3>3
  <2> QED BY <1>1, <2>2 DEF ExternalEdit, CPTypeOK, SignerIsCurrent
<1>2. CASE Dispatch
  BY <1>2 DEF Dispatch, CPTypeOK, SignerIsCurrent
<1>3. CASE ReloadFlag
  <2>1. reload' \in [pc : {"idle", "flag", "read"}]
    BY <1>3 DEF ReloadFlag, NoReload
  <2> QED BY <1>3, <2>1 DEF ReloadFlag, CPTypeOK, SignerIsCurrent
<1>4. CASE ReloadRead
  <2>1. reload' \in [pc : {"idle", "flag", "read"}] \cup [pc : {"replace"}, cfg : Configs]
    BY <1>4 DEF ReloadRead, NoReload, CPTypeOK
  <2> QED BY <1>4, <2>1 DEF ReloadRead, CPTypeOK, SignerIsCurrent
<1>5. CASE ReloadReplace
  <2>1. mem' \in Configs /\ mem' = reload.cfg /\ NoReload \in [pc : {"idle", "flag", "read"}]
    BY <1>5, ReloadFields DEF ReloadReplace
  <2>2. signer' # 0 => signer' = signer /\ mem'.secret = mem.secret
    BY <1>5 DEF ReloadReplace, KeepSigner
  <2>3. signer' \in Nat
    BY <1>5 DEF ReloadReplace, CPTypeOK
  <2> QED BY <1>5, <2>1, <2>2, <2>3 DEF ReloadReplace, CPTypeOK, SignerIsCurrent
<1>6. ASSUME NEW saved \in BOOLEAN, Restarted(saved) PROVE CPInv'
  <2>1. disk' \in Configs \cup {Gone}
    BY <1>6 DEF Restarted, CPTypeOK
  <2>2. mem' \in Configs
    BY <1>6, <2>1, EmptyConfig DEF Restarted
  <2>3. request' \in [Requests -> {"start", "delete", "save", "saveThenSign", "sign"}]
    BY <1>6 DEF Restarted
  <2>4. reload' \in [pc : {"idle", "flag", "read"}]
    BY <1>6 DEF Restarted, NoReload
  <2> QED BY <1>6, <2>1, <2>2, <2>3, <2>4 DEF Restarted, CPTypeOK, SignerIsCurrent
<1> QED BY <1>1, <1>2, <1>3, <1>4, <1>5, <1>6

LEMMA CPInvNext == CPInv /\ [CPNext]_cpVars => CPInv'
<1> SUFFICES ASSUME CPInv, [CPNext]_cpVars PROVE CPInv'
  OBVIOUS
<1>1. CASE UNCHANGED cpVars
  BY <1>1 DEF CPInv, CPTypeOK, SignerIsCurrent, cpVars
<1>2. CASE CPNext
  BY <1>2, CPInvChanges, CPInvSigns, CPInvSaves, CPInvFile DEF CPNext, RequestStep
<1> QED BY <1>1, <1>2

\* Memory, file, signer and the reload under way keep their types, also when
\* the file is gone or half written.
THEOREM ConfigTypeCorrect == CPSpec => []CPTypeOK
<1>1. CPInv => CPTypeOK
  BY DEF CPInv
<1> QED BY <1>1, CPInvInit, CPInvNext, PTL DEF CPSpec

\* The cached signer is always that of the secret in memory: Reload, Reset,
\* SetPasswordHash and TokenSigner keep the two together (controlplane.go,
\* controlplane_auth.go).
THEOREM SignerStaysCurrent == CPSpec => []SignerIsCurrent
<1>1. CPInv => SignerIsCurrent
  BY DEF CPInv
<1> QED BY <1>1, CPInvInit, CPInvNext, PTL DEF CPSpec

(***************************************************************************)
(* Terminal sessions.  The replay a client takes covers everything that    *)
(* was fanned out before, and what is fanned out after it subscribed comes *)
(* to its buffer; an exit that was told was marked before.                 *)
(***************************************************************************)
ExitsMarked == \A s \in Terms : term[s].exits # 0 => term[s].exited

TermInv == TermTypeOK /\ ExitsMarked /\ AttachedMissNothing

\* A step that makes a session r, with the same fan-out as before, and no
\* client read anything: the clients missed nothing of it.
LEMMA SessionMoves ==
    ASSUME TermInv, NEW s \in Terms, NEW r \in TermRecs, term' = [term EXCEPT ![s] = r],
           r.fanned = term[s].fanned, r.written <= r.out, r.written - r.lo < MaxReplay,
           r.fanned <= r.written, r.exits = term[s].exits, r.exited = term[s].exited,
           client' = client, far' \in [Remotes -> FarRecs]
    PROVE  TermInv'
<1>1. /\ term \in [Terms -> TermRecs] /\ term' \in [Terms -> TermRecs] /\ term'[s] = r
      /\ \A t \in Terms : t # s => term'[t] = term[t]
  BY DEF TermInv, TermTypeOK
<1>2. \A t \in Terms : /\ term'[t].fanned = term[t].fanned /\ term'[t].exits = term[t].exits
                       /\ term'[t].exited = term[t].exited
  BY <1>1
<1>3. \A t \in Terms : /\ term'[t].fanned <= term'[t].written /\ term'[t].written <= term'[t].out
                       /\ term'[t].written - term'[t].lo < MaxReplay
  BY <1>1 DEF TermInv, TermTypeOK
<1>4. TermTypeOK'
  BY <1>1, <1>3 DEF TermInv, TermTypeOK
<1>5. ExitsMarked'
  BY <1>2 DEF TermInv, ExitsMarked
<1>6. AttachedMissNothing'
  <2> SUFFICES ASSUME NEW c \in Clients, NEW t \in client[c].at,
                      client[c].step = 3, client[c].sub, ~client[c].lost
               PROVE  /\ client[c].from..term'[t].fanned \subseteq client[c].got
                      /\ term'[t].exits = 2 => client[c].sawExit
    BY DEF AttachedMissNothing
  <2>1. t \in Terms
    BY DEF TermInv, TermTypeOK, ClientRecs
  <2> QED BY <1>2, <2>1 DEF TermInv, AttachedMissNothing
<1> QED BY <1>4, <1>5, <1>6 DEF TermInv

\* The creation of sessions and the shells.
LEMMA TermInvShells ==
    ASSUME TermInv, NEW s \in Terms,
           \/ CreateLocal(s) \/ InsertLocal(s) \/ CreateRemote(s) \/ CreateTimesOut(s)
           \/ ShellPrints(s) \/ ShellExits(s) \/ WriteReplay(s)
           \/ s \in Remotes /\ (NodeStarts(s) \/ NodeRegisters(s) \/ CreatedArrives(s) \/ NodeCloses(s))
    PROVE  TermInv'
<1> USE TerminalAssumption
<1>1. /\ term \in [Terms -> TermRecs] /\ term[s] \in TermRecs /\ far \in [Remotes -> FarRecs]
      /\ term[s].fanned <= term[s].written /\ term[s].written <= term[s].out
      /\ term[s].written - term[s].lo < MaxReplay
  BY DEF TermInv, TermTypeOK
<1>2. ASSUME NEW pl \in {"free", "made", "await", "listed", "gone"},
             NEW sh \in {"none", "alive", "dead"},
             \/ term' = [term EXCEPT ![s].place = pl]
             \/ term' = [term EXCEPT ![s].shell = sh]
             \/ term' = [term EXCEPT ![s].place = pl, ![s].shell = sh]
             \/ term' = term,
             client' = client, far' \in [Remotes -> FarRecs]
      PROVE  TermInv'
  <2>1. CASE term' = [term EXCEPT ![s].place = pl]
    <3> DEFINE q == [term[s] EXCEPT !.place = pl]
    <3>1. /\ q \in TermRecs /\ q.fanned = term[s].fanned /\ q.written = term[s].written
          /\ q.out = term[s].out /\ q.lo = term[s].lo /\ q.exits = term[s].exits
          /\ q.exited = term[s].exited
      BY <1>1 DEF TermRecs
    <3>2. term' = [term EXCEPT ![s] = q]
      BY <1>1, <2>1
    <3> HIDE DEF q
    <3> QED BY <1>1, <1>2, <3>1, <3>2, SessionMoves
  <2>2. CASE term' = [term EXCEPT ![s].shell = sh]
    <3> DEFINE q == [term[s] EXCEPT !.shell = sh]
    <3>1. /\ q \in TermRecs /\ q.fanned = term[s].fanned /\ q.written = term[s].written
          /\ q.out = term[s].out /\ q.lo = term[s].lo /\ q.exits = term[s].exits
          /\ q.exited = term[s].exited
      BY <1>1 DEF TermRecs
    <3>2. term' = [term EXCEPT ![s] = q]
      BY <1>1, <2>2
    <3> HIDE DEF q
    <3> QED BY <1>1, <1>2, <3>1, <3>2, SessionMoves
  <2>3. CASE term' = [term EXCEPT ![s].place = pl, ![s].shell = sh]
    <3> DEFINE q == [[term[s] EXCEPT !.place = pl] EXCEPT !.shell = sh]
    <3>1. /\ q \in TermRecs /\ q.fanned = term[s].fanned /\ q.written = term[s].written
          /\ q.out = term[s].out /\ q.lo = term[s].lo /\ q.exits = term[s].exits
          /\ q.exited = term[s].exited
      BY <1>1 DEF TermRecs
    <3>2. term' = [term EXCEPT ![s] = q]
      BY <1>1, <2>3
    <3> HIDE DEF q
    <3> QED BY <1>1, <1>2, <3>1, <3>2, SessionMoves
  <2>4. CASE term' = term
    <3>1. term' = [term EXCEPT ![s] = term[s]]
      BY <1>1, <2>4
    <3> QED BY <1>1, <1>2, <3>1, SessionMoves
  <2> QED BY <1>2, <2>1, <2>2, <2>3, <2>4
<1>3. CASE CreateLocal(s)
  BY <1>1, <1>2, <1>3 DEF CreateLocal
<1>4. CASE InsertLocal(s)
  <2>1. CASE LimitsAllow(s)
    <3>1. term' = [term EXCEPT ![s].place = "listed"]
      BY <1>4, <2>1 DEF InsertLocal
    <3> QED BY <1>1, <1>2, <1>4, <3>1 DEF InsertLocal
  <2>2. CASE ~LimitsAllow(s)
    <3>1. term' = [term EXCEPT ![s].place = "gone", ![s].shell = "dead"]
      BY <1>1, <1>4, <2>2 DEF InsertLocal
    <3> QED BY <1>1, <1>2, <1>4, <3>1 DEF InsertLocal
  <2> QED BY <2>1, <2>2
<1>5. CASE CreateRemote(s)
  <2>1. far' \in [Remotes -> FarRecs]
    BY <1>1, <1>5 DEF CreateRemote, FarRecs
  <2> QED BY <1>1, <1>2, <1>5, <2>1 DEF CreateRemote
<1>6. CASE CreateTimesOut(s)
  <2>1. far' \in [Remotes -> FarRecs]
    BY <1>1, <1>6 DEF CreateTimesOut, FarRecs
  <2> QED BY <1>1, <1>2, <1>6, <2>1 DEF CreateTimesOut
<1>7. CASE ShellPrints(s)
  <2> DEFINE q == [term[s] EXCEPT !.out = term[s].out + 1]
  <2>1. term[s].out \in 0..MaxOutput /\ term[s].out + 1 \in 0..MaxOutput /\ term[s].written \in Nat
    BY <1>1, <1>7 DEF ShellPrints, TermRecs
  <2>2. /\ q \in TermRecs /\ q.fanned = term[s].fanned /\ q.written = term[s].written
        /\ q.out = term[s].out + 1 /\ q.lo = term[s].lo /\ q.exits = term[s].exits
        /\ q.exited = term[s].exited
    BY <1>1, <2>1 DEF TermRecs
  <2>3. term' = [term EXCEPT ![s] = q] /\ client' = client /\ far' = far
    BY <1>1, <1>7 DEF ShellPrints
  <2> HIDE DEF q
  <2>4. q.written <= q.out
    BY <1>1, <2>1, <2>2
  <2> QED BY <1>1, <2>2, <2>3, <2>4, SessionMoves
<1>8. CASE ShellExits(s)
  BY <1>1, <1>2, <1>8 DEF ShellExits
<1>9. CASE WriteReplay(s)
  <2> DEFINE n == term[s].written + 1
             l == IF n - term[s].lo >= MaxReplay THEN term[s].lo + 1 ELSE term[s].lo
             q == [[term[s] EXCEPT !.written = n] EXCEPT !.lo = l]
  <2>1. /\ term[s].written \in Nat /\ term[s].lo \in Nat /\ term[s].out \in Nat
        /\ term[s].fanned \in Nat
    BY <1>1 DEF TermRecs
  <2>2. n \in Nat /\ l \in Nat /\ n - l < MaxReplay
    BY <1>1, <2>1
  <2>3. n <= term[s].out /\ term[s].fanned <= n
    BY <1>9, <2>1 DEF WriteReplay
  <2>4. term' = [term EXCEPT ![s] = q] /\ client' = client /\ far' = far
    BY <1>1, <1>9 DEF WriteReplay
  <2> HIDE DEF n, l
  <2>5. /\ q \in TermRecs /\ q.fanned = term[s].fanned /\ q.written = n
        /\ q.out = term[s].out /\ q.lo = l /\ q.exits = term[s].exits
        /\ q.exited = term[s].exited
    BY <1>1, <2>2 DEF TermRecs
  <2> HIDE DEF q
  <2> QED BY <1>1, <2>2, <2>3, <2>4, <2>5, SessionMoves
<1>10. ASSUME s \in Remotes, NodeStarts(s) PROVE TermInv'
  <2>1. far' \in [Remotes -> FarRecs]
    BY <1>1, <1>10 DEF NodeStarts, FarRecs
  <2> QED BY <1>1, <1>2, <1>10, <2>1 DEF NodeStarts
<1>11. ASSUME s \in Remotes, NodeRegisters(s) PROVE TermInv'
  <2>1. far' \in [Remotes -> FarRecs]
    BY <1>1, <1>11 DEF NodeRegisters, FarRecs
  <2> QED BY <1>1, <1>2, <1>11, <2>1 DEF NodeRegisters
<1>12. ASSUME s \in Remotes, CreatedArrives(s) PROVE TermInv'
  <2>1. far' \in [Remotes -> FarRecs]
    BY <1>1, <1>12 DEF CreatedArrives, FarRecs
  <2>2. PICK pl \in {"listed", "gone"} : term' = term \/ term' = [term EXCEPT ![s].place = pl]
    BY <1>12 DEF CreatedArrives
  <2> QED BY <1>1, <1>2, <1>12, <2>1, <2>2 DEF CreatedArrives
<1>13. ASSUME s \in Remotes, NodeCloses(s) PROVE TermInv'
  <2>1. far' \in [Remotes -> FarRecs]
    BY <1>1, <1>13 DEF NodeCloses, FarRecs
  <2>2. term' = term \/ term' = [term EXCEPT ![s].shell = "dead"]
    BY <1>13 DEF NodeCloses
  <2> QED BY <1>1, <1>2, <1>13, <2>1, <2>2 DEF NodeCloses
<1> QED BY <1>3, <1>4, <1>5, <1>6, <1>7, <1>8, <1>9, <1>10, <1>11, <1>12, <1>13

\* What a fan-out does to a client: nothing, or it loses the event, or it has it.
FannedTo(c, s, chunks, exit) ==
    /\ client'[c] \in ClientRecs
    /\ client'[c].at = client[c].at /\ client'[c].step = client[c].step
    /\ client'[c].sub = client[c].sub /\ client'[c].from = client[c].from
    /\ c \notin Attached(s) => client'[c] = client[c]
    /\ c \in Attached(s) /\ ~client'[c].lost =>
         /\ ~client[c].lost /\ client'[c].got = client[c].got \cup chunks
         /\ exit => client'[c].sawExit
         /\ client[c].sawExit => client'[c].sawExit

LEMMA FannedOut ==
    ASSUME TermInv, NEW s \in Terms, NEW chunks \in SUBSET Nat, NEW exit \in BOOLEAN,
           FanOut(s, chunks, exit), NEW c \in Clients
    PROVE  FannedTo(c, s, chunks, exit)
<1> USE TerminalAssumption DEF FannedTo
<1> DEFINE k == client[c]
<1>1. k \in ClientRecs
  BY DEF TermInv, TermTypeOK
<1>2. client'[c] = IF c \notin Attached(s) THEN k
                   ELSE IF k.queued = SubscriberBuffer THEN [k EXCEPT !.lost = TRUE]
                   ELSE [k EXCEPT !.got = k.got \cup chunks, !.sawExit = k.sawExit \/ exit,
                                  !.queued = k.queued + 1]
  BY DEF FanOut
<1> HIDE DEF k
<1>3. CASE c \notin Attached(s)
  BY <1>1, <1>2, <1>3 DEF k
<1>4. CASE c \in Attached(s) /\ k.queued = SubscriberBuffer
  <2> DEFINE r == [k EXCEPT !.lost = TRUE]
  <2>1. /\ r \in ClientRecs /\ r.lost /\ r.at = k.at /\ r.step = k.step /\ r.sub = k.sub
        /\ r.from = k.from
    BY <1>1 DEF ClientRecs
  <2>2. client'[c] = r
    BY <1>2, <1>4
  <2> HIDE DEF r
  <2> QED BY <1>4, <2>1, <2>2 DEF k
<1>5. CASE c \in Attached(s) /\ k.queued # SubscriberBuffer
  <2> DEFINE b == k.sawExit \/ exit
             g == k.got \cup chunks
             r == [k EXCEPT !.got = g, !.sawExit = b, !.queued = k.queued + 1]
  <2>1. k.queued + 1 \in 0..SubscriberBuffer
    <3>1. k.queued \in 0..SubscriberBuffer
      BY <1>1 DEF ClientRecs
    <3> QED BY <1>5, <3>1
  <2>2. b \in BOOLEAN /\ g \in SUBSET Nat
    <3>1. k.got \in SUBSET Nat
      BY <1>1 DEF ClientRecs
    <3> QED BY <3>1
  <2>3. (exit => b) /\ (k.sawExit => b)
    OBVIOUS
  <2>4. client'[c] = r
    BY <1>2, <1>5
  <2> HIDE DEF b, g
  <2>5. /\ r \in ClientRecs /\ r.lost = k.lost /\ r.at = k.at /\ r.step = k.step /\ r.sub = k.sub
        /\ r.from = k.from /\ r.got = g /\ r.sawExit = b
    BY <1>1, <2>1, <2>2 DEF ClientRecs
  <2> HIDE DEF r
  <2>6. g = k.got \cup chunks
    BY DEF g
  <2> QED BY <1>5, <2>3, <2>4, <2>5, <2>6 DEF k
<1> QED BY <1>3, <1>4, <1>5

LEMMA TermInvFanOut ==
    ASSUME TermInv, NEW s \in Terms, FanOutData(s) \/ TellExited(s) PROVE TermInv'
<1> USE TerminalAssumption
<1>1. /\ term \in [Terms -> TermRecs] /\ term[s] \in TermRecs /\ client \in [Clients -> ClientRecs]
      /\ far' \in [Remotes -> FarRecs]
      /\ term[s].fanned <= term[s].written /\ term[s].written <= term[s].out
      /\ term[s].written - term[s].lo < MaxReplay
  BY DEF TermInv, TermTypeOK, FanOutData, TellExited
<1>2. PICK f \in Nat, x \in 0..2, chunks \in SUBSET Nat, exit \in BOOLEAN, r \in TermRecs :
        /\ term' = [term EXCEPT ![s] = r] /\ FanOut(s, chunks, exit)
        /\ r.fanned = f /\ r.exits = x /\ r.exited = term[s].exited
        /\ r.written = term[s].written /\ r.out = term[s].out /\ r.lo = term[s].lo
        /\ f <= term[s].written
        /\ f = term[s].fanned \/ (f = term[s].fanned + 1 /\ chunks = {f})
        /\ x = term[s].exits \/ (exit /\ term[s].exits # 0)
  <2>1. CASE FanOutData(s)
    <3> DEFINE f == term[s].fanned + 1
               r == [term[s] EXCEPT !.fanned = f]
    <3>1. f \in Nat /\ f <= term[s].written /\ {f} \in SUBSET Nat /\ term[s].exits \in 0..2
      BY <1>1, <2>1 DEF FanOutData, TermRecs
    <3>2. term' = [term EXCEPT ![s] = r] /\ FanOut(s, {f}, FALSE)
      BY <1>1, <2>1 DEF FanOutData
    <3>3. f = term[s].fanned + 1
      OBVIOUS
    <3> HIDE DEF f
    <3>4. /\ r \in TermRecs /\ r.fanned = f /\ r.exits = term[s].exits /\ r.exited = term[s].exited
          /\ r.written = term[s].written /\ r.out = term[s].out /\ r.lo = term[s].lo
      BY <1>1, <3>1 DEF TermRecs
    <3> HIDE DEF r
    <3>5. FALSE \in BOOLEAN
      OBVIOUS
    <3> USE <3>1, <3>4, <3>5
    <3> WITNESS f \in Nat, term[s].exits \in 0..2, {f} \in SUBSET Nat, FALSE \in BOOLEAN,
                r \in TermRecs
    <3> QED BY <3>1, <3>2, <3>3, <3>4
  <2>2. CASE TellExited(s)
    <3> DEFINE r == [term[s] EXCEPT !.exits = 2]
    <3>1. /\ r \in TermRecs /\ r.fanned = term[s].fanned /\ r.exits = 2 /\ r.exited = term[s].exited
          /\ r.written = term[s].written /\ r.out = term[s].out /\ r.lo = term[s].lo
      BY <1>1 DEF TermRecs
    <3>2. term' = [term EXCEPT ![s] = r] /\ FanOut(s, {}, TRUE) /\ term[s].exits = 1
      BY <1>1, <2>2 DEF TellExited
    <3>3. term[s].fanned \in Nat /\ {} \in SUBSET Nat /\ TRUE \in BOOLEAN /\ 2 \in 0..2
      BY <1>1 DEF TermRecs
    <3> HIDE DEF r
    <3> USE <3>1, <3>3
    <3> WITNESS term[s].fanned \in Nat, 2 \in 0..2, {} \in SUBSET Nat, TRUE \in BOOLEAN,
                r \in TermRecs
    <3> QED BY <1>1, <3>1, <3>2
  <2> QED BY <2>1, <2>2
<1>3. /\ term' \in [Terms -> TermRecs] /\ term'[s] = r
      /\ \A t \in Terms : t # s => term'[t] = term[t]
  BY <1>1, <1>2
<1>4. \A t \in Terms : /\ term'[t].fanned <= term'[t].written /\ term'[t].written <= term'[t].out
                       /\ term'[t].written - term'[t].lo < MaxReplay
  BY <1>1, <1>2, <1>3 DEF TermInv, TermTypeOK
<1>5. client' \in [Clients -> ClientRecs]
  <2>1. \A c \in Clients : client'[c] \in ClientRecs
    BY <1>2, FannedOut DEF FannedTo
  <2>2. client' = [c \in Clients |-> client'[c]]
    BY <1>2 DEF FanOut
  <2> QED BY <2>1, <2>2
<1>6. \A c \in Clients : \A t, u \in client'[c].at : t = u
  <2>1. ASSUME NEW c \in Clients PROVE client'[c].at = client[c].at
    <3>1. FannedTo(c, s, chunks, exit)
      BY <1>2, FannedOut
    <3> QED BY <3>1 DEF FannedTo
  <2> QED BY <2>1 DEF TermInv, TermTypeOK
<1>7. TermTypeOK'
  BY <1>1, <1>3, <1>4, <1>5, <1>6 DEF TermTypeOK
<1>8. ExitsMarked'
  BY <1>2, <1>3 DEF TermInv, ExitsMarked
<1>9. AttachedMissNothing'
  <2> SUFFICES ASSUME NEW c \in Clients, NEW t \in client'[c].at,
                      client'[c].step = 3, client'[c].sub, ~client'[c].lost
               PROVE  /\ client'[c].from..term'[t].fanned \subseteq client'[c].got
                      /\ term'[t].exits = 2 => client'[c].sawExit
    BY DEF AttachedMissNothing
  <2>1. /\ client'[c].at = client[c].at /\ client'[c].step = client[c].step
        /\ client'[c].sub = client[c].sub /\ client'[c].from = client[c].from
        /\ c \notin Attached(s) => client'[c] = client[c]
        /\ c \in Attached(s) /\ ~client'[c].lost =>
                /\ ~client[c].lost /\ client'[c].got = client[c].got \cup chunks
                /\ exit => client'[c].sawExit
                /\ client[c].sawExit => client'[c].sawExit
    <3>1. FannedTo(c, s, chunks, exit)
      BY <1>2, FannedOut
    <3> QED BY <3>1 DEF FannedTo
  <2>2. /\ t \in Terms /\ t \in client[c].at /\ client[c].from \in Nat /\ term[t].fanned \in Nat
    BY <1>1, <2>1 DEF TermInv, TermTypeOK, ClientRecs, TermRecs
  <2>3. ~client[c].lost
    BY <2>1
  <2>4. /\ client[c].from..term[t].fanned \subseteq client[c].got
        /\ term[t].exits = 2 => client[c].sawExit
    BY <2>1, <2>2, <2>3 DEF TermInv, AttachedMissNothing
  <2>5. CASE t # s
    <3>1. term'[t] = term[t] /\ client[c].got \subseteq client'[c].got
      BY <1>3, <2>1, <2>2, <2>5
    <3>2. client[c].sawExit => client'[c].sawExit
      BY <2>1
    <3> QED BY <2>1, <2>4, <3>1, <3>2
  <2>6. CASE t = s
    <3>1. c \in Attached(s)
      BY <2>1, <2>2, <2>6 DEF Attached
    <3>2. client'[c].got = client[c].got \cup chunks /\ term'[t] = r
      BY <1>3, <2>1, <2>6, <3>1
    <3>3. client'[c].from..term'[t].fanned \subseteq client'[c].got
      <4>1. CASE f = term[s].fanned
        BY <1>2, <2>1, <2>4, <2>6, <3>2, <4>1
      <4>2. CASE f = term[s].fanned + 1 /\ chunks = {f}
        <5>1. client[c].from..f \subseteq (client[c].from..term[s].fanned) \cup {f}
          BY <2>2, <2>6, <4>2
        <5> QED BY <1>2, <2>1, <2>4, <2>6, <3>2, <4>2, <5>1
      <4> QED BY <1>2, <4>1, <4>2
    <3>4. term'[t].exits = 2 => client'[c].sawExit
      BY <1>2, <2>1, <2>4, <2>6, <3>1, <3>2
    <3> QED BY <3>3, <3>4
  <2> QED BY <2>5, <2>6
<1> QED BY <1>7, <1>8, <1>9 DEF TermInv

\* The exit is marked before it is told.
LEMMA TermInvExited == ASSUME TermInv, NEW s \in Terms, MarkExited(s) PROVE TermInv'
<1> USE TerminalAssumption
<1> DEFINE r == [[term[s] EXCEPT !.exited = TRUE] EXCEPT !.exits = 1]
<1>1. /\ term \in [Terms -> TermRecs] /\ term[s] \in TermRecs
  BY DEF TermInv, TermTypeOK
<1>2. /\ r \in TermRecs /\ r.fanned = term[s].fanned /\ r.exits = 1 /\ r.exited = TRUE
      /\ r.written = term[s].written /\ r.out = term[s].out /\ r.lo = term[s].lo
  <2>1. TRUE \in BOOLEAN /\ 1 \in 0..2
    OBVIOUS
  <2> QED BY <1>1, <2>1 DEF TermRecs
<1>3. term' = [term EXCEPT ![s] = r] /\ client' = client /\ far' = far
  BY <1>1 DEF MarkExited
<1> HIDE DEF r
<1>4. /\ term' \in [Terms -> TermRecs] /\ term'[s] = r
      /\ \A t \in Terms : t # s => term'[t] = term[t]
  BY <1>1, <1>2, <1>3
<1>5. \A t \in Terms : /\ term'[t].fanned = term[t].fanned /\ term'[t].written = term[t].written
                       /\ term'[t].out = term[t].out /\ term'[t].lo = term[t].lo
                       /\ term'[t].exits = 2 => term[t].exits = 2
  BY <1>2, <1>4
<1>6. TermTypeOK'
  BY <1>3, <1>4, <1>5 DEF TermInv, TermTypeOK
<1>7. ExitsMarked'
  BY <1>2, <1>4 DEF TermInv, ExitsMarked
<1>8. \A c \in Clients : client[c].at \subseteq Terms
  BY DEF TermInv, TermTypeOK, ClientRecs
<1>9. AttachedMissNothing'
  BY <1>3, <1>5, <1>8 DEF TermInv, AttachedMissNothing
<1> QED BY <1>6, <1>7, <1>9 DEF TermInv

MissedNothing(k) ==
    \A s \in k.at : k.step = 3 /\ k.sub /\ ~k.lost =>
                      /\ k.from..term[s].fanned \subseteq k.got
                      /\ term[s].exits = 2 => k.sawExit

\* A step of one client that makes it k.
LEMMA ClientMoves ==
    ASSUME TermInv, NEW c \in Clients, NEW k \in ClientRecs, client' = [client EXCEPT ![c] = k],
           term' = term, far' = far,
           \A s, t \in k.at : s = t, MissedNothing(k)
    PROVE  TermInv'
<1>1. /\ client \in [Clients -> ClientRecs] /\ client' \in [Clients -> ClientRecs] /\ client'[c] = k
      /\ \A d \in Clients : d # c => client'[d] = client[d]
  BY DEF TermInv, TermTypeOK
<1>2. TermTypeOK'
  <2>1. \A d \in Clients : \A s, t \in client'[d].at : s = t
    BY <1>1 DEF TermInv, TermTypeOK
  <2> QED BY <1>1, <2>1 DEF TermInv, TermTypeOK
<1>3. ExitsMarked'
  BY DEF TermInv, ExitsMarked
<1>4. AttachedMissNothing'
  <2>1. ASSUME NEW d \in Clients, NEW t \in client'[d].at,
               client'[d].step = 3, client'[d].sub, ~client'[d].lost
        PROVE  /\ client'[d].from..term[t].fanned \subseteq client'[d].got
               /\ term[t].exits = 2 => client'[d].sawExit
    <3>1. CASE d = c
      BY <1>1, <2>1, <3>1 DEF MissedNothing
    <3>2. CASE d # c
      BY <1>1, <2>1, <3>2 DEF TermInv, AttachedMissNothing
    <3> QED BY <3>1, <3>2
  <2> QED BY <2>1 DEF AttachedMissNothing
<1> QED BY <1>2, <1>3, <1>4 DEF TermInv

LEMMA TermInvClients ==
    ASSUME TermInv, NEW c \in Clients,
           ClientReads(c) \/ Detach(c) \/ \E s \in Terms : AttachLookup(c, s) \/ AttachStep(c, s)
    PROVE  TermInv'
<1> USE TerminalAssumption
<1>1. /\ client \in [Clients -> ClientRecs] /\ client[c] \in ClientRecs /\ term \in [Terms -> TermRecs]
      /\ \A s, t \in client[c].at : s = t
  BY DEF TermInv, TermTypeOK
<1>2. CASE ClientReads(c)
  <2> DEFINE k == [client[c] EXCEPT !.queued = client[c].queued - 1]
  <2>1. client[c].queued - 1 \in 0..SubscriberBuffer
    <3>1. client[c].queued \in 0..SubscriberBuffer /\ client[c].queued > 0
      BY <1>1, <1>2 DEF ClientRecs, ClientReads
    <3> QED BY <3>1
  <2>2. /\ k \in ClientRecs /\ k.at = client[c].at /\ k.step = client[c].step /\ k.sub = client[c].sub
        /\ k.lost = client[c].lost /\ k.from = client[c].from /\ k.got = client[c].got
        /\ k.sawExit = client[c].sawExit
    BY <1>1, <2>1 DEF ClientRecs
  <2>3. client' = [client EXCEPT ![c] = k] /\ term' = term /\ far' = far
    BY <1>1, <1>2 DEF ClientReads
  <2> HIDE DEF k
  <2>4. MissedNothing(k)
    BY <2>2 DEF TermInv, AttachedMissNothing, MissedNothing
  <2>5. k \in ClientRecs /\ \A s, t \in k.at : s = t
    BY <1>1, <2>2
  <2> QED BY <2>3, <2>4, <2>5, ClientMoves
<1>3. CASE Detach(c)
  <2>1. Away \in ClientRecs /\ Away.at = {}
    BY DEF Away, ClientRecs
  <2>2. MissedNothing(Away)
    BY <2>1 DEF MissedNothing
  <2> QED BY <1>3, <2>1, <2>2, ClientMoves DEF Detach
<1>4. ASSUME NEW s \in Terms, AttachLookup(c, s) PROVE TermInv'
  <2> DEFINE k == [[client[c] EXCEPT !.at = {s}] EXCEPT !.step = 1]
  <2>1. k \in ClientRecs /\ k.at = {s} /\ k.step = 1
    <3>1. {s} \in SUBSET Terms /\ 1 \in 0..3
      OBVIOUS
    <3> QED BY <1>1, <3>1 DEF ClientRecs
  <2>2. client' = [client EXCEPT ![c] = k] /\ term' = term /\ far' = far
    BY <1>1, <1>4 DEF AttachLookup
  <2> HIDE DEF k
  <2>3. MissedNothing(k)
    BY <2>1 DEF MissedNothing
  <2> QED BY <2>1, <2>2, <2>3, ClientMoves
<1>5. ASSUME NEW s \in Terms, AttachStep(c, s) PROVE TermInv'
  <2>1. s \in client[c].at /\ client[c].step \in {1, 2} /\ term' = term /\ far' = far
    BY <1>5 DEF AttachStep
  <2>2. CASE client[c].step = 1
    <3> DEFINE k == [[client[c] EXCEPT !.sub = TRUE] EXCEPT !.step = 2]
    <3>1. k \in ClientRecs /\ k.at = client[c].at /\ k.step = 2
      <4>1. TRUE \in BOOLEAN /\ 2 \in 0..3
        OBVIOUS
      <4> QED BY <1>1, <4>1 DEF ClientRecs
    <3>2. AttachOrder[client[c].step] = "subscribe"
      BY <2>2 DEF AttachOrder
    <3>3. client' = [client EXCEPT ![c] = k]
      <4>1. client' = [client EXCEPT ![c] = Subscribed(client[c])]
        BY <1>5, <3>2 DEF AttachStep
      <4>2. client[c].step + 1 = 2
        BY <2>2
      <4> QED BY <4>1, <4>2 DEF Subscribed
    <3> HIDE DEF k
    <3>4. MissedNothing(k)
      BY <3>1 DEF MissedNothing
    <3> QED BY <1>1, <2>1, <3>1, <3>3, <3>4, ClientMoves
  <2>3. CASE client[c].step = 2
    <3> DEFINE g == client[c].got \cup term[s].lo..term[s].written
               b == client[c].sawExit \/ term[s].exited
               k == [[[[client[c] EXCEPT !.from = term[s].lo] EXCEPT !.got = g]
                         EXCEPT !.sawExit = b] EXCEPT !.step = 3]
    <3>1. AttachOrder[client[c].step] # "subscribe"
      BY <2>3 DEF AttachOrder
    <3>2. client' = [client EXCEPT ![c] = k]
      <4>1. client' = [client EXCEPT ![c] = Replayed(client[c], term[s])]
        BY <1>5, <3>1 DEF AttachStep
      <4>2. client[c].step + 1 = 3
        BY <2>3
      <4> QED BY <4>1, <4>2 DEF Replayed
    <3>3. /\ term[s].lo \in Nat /\ term[s].written \in Nat /\ term[s].fanned \in Nat
          /\ term[s].fanned <= term[s].written
      BY DEF TermInv, TermTypeOK, TermRecs
    <3>4. g \in SUBSET Nat /\ term[s].lo..term[s].fanned \subseteq g
      <4>1. client[c].got \in SUBSET Nat
        BY <1>1 DEF ClientRecs
      <4> QED BY <3>3, <4>1
    <3>5. b \in BOOLEAN /\ (term[s].exits = 2 => b)
      <4>1. term[s].exits = 2 => term[s].exited
        BY DEF TermInv, ExitsMarked
      <4> QED BY <4>1
    <3> HIDE DEF g, b
    <3>6. /\ k \in ClientRecs /\ k.at = client[c].at /\ k.from = term[s].lo /\ k.got = g
          /\ k.sawExit = b
      <4>1. 3 \in 0..3
        OBVIOUS
      <4> QED BY <1>1, <3>3, <3>4, <3>5, <4>1 DEF ClientRecs
    <3> HIDE DEF k
    <3>7. \A t \in k.at : t = s
      BY <1>1, <2>1, <3>6
    <3>8. MissedNothing(k)
      BY <3>4, <3>5, <3>6, <3>7 DEF MissedNothing
    <3> QED BY <1>1, <2>1, <3>2, <3>6, <3>7, <3>8, ClientMoves
  <2> QED BY <2>1, <2>2, <2>3
<1> QED BY <1>2, <1>3, <1>4, <1>5

\* A closed session keeps its numbers; its clients are gone or have no subscription.
LEMMA TermInvClose == ASSUME TermInv, NEW s \in Terms, Close(s) PROVE TermInv'
<1> USE TerminalAssumption
<1>1. /\ term \in [Terms -> TermRecs] /\ term[s] \in TermRecs /\ client \in [Clients -> ClientRecs]
      /\ far \in [Remotes -> FarRecs]
  BY DEF TermInv, TermTypeOK
<1> DEFINE sh == IF s \in Locals THEN "dead" ELSE term[s].shell
           r == [[term[s] EXCEPT !.place = "gone"] EXCEPT !.shell = sh]
<1>2. sh \in {"none", "alive", "dead"}
  BY <1>1 DEF TermRecs
<1>3. term' = [term EXCEPT ![s] = r]
  BY <1>1 DEF Close
<1> HIDE DEF sh
<1>4. /\ r \in TermRecs /\ r.fanned = term[s].fanned /\ r.exits = term[s].exits
      /\ r.exited = term[s].exited
      /\ r.written = term[s].written /\ r.out = term[s].out /\ r.lo = term[s].lo
  BY <1>1, <1>2 DEF TermRecs
<1> HIDE DEF r
<1>5. /\ term' \in [Terms -> TermRecs]
      /\ \A t \in Terms : /\ term'[t].fanned = term[t].fanned /\ term'[t].written = term[t].written
                          /\ term'[t].out = term[t].out /\ term'[t].lo = term[t].lo
                          /\ term'[t].exits = term[t].exits /\ term'[t].exited = term[t].exited
  BY <1>1, <1>3, <1>4
<1>6. far' \in [Remotes -> FarRecs]
  BY <1>1 DEF Close, FarRecs
<1>7. ASSUME NEW c \in Clients
      PROVE  /\ client'[c] \in ClientRecs /\ client'[c].at \subseteq client[c].at
             /\ client'[c] = client[c] \/ ~client'[c].sub
  <2>1. Away \in ClientRecs /\ Away.at = {} /\ ~Away.sub
    BY DEF Away, ClientRecs
  <2> DEFINE k == [client[c] EXCEPT !.sub = FALSE]
  <2>2. k \in ClientRecs /\ k.at = client[c].at /\ ~k.sub
    BY <1>1 DEF ClientRecs
  <2>3. client'[c] = Away \/ client'[c] = k \/ client'[c] = client[c]
    BY DEF Close
  <2> HIDE DEF k
  <2> QED BY <1>1, <2>1, <2>2, <2>3
<1>8. client' \in [Clients -> ClientRecs]
  <2>1. client' = [c \in Clients |-> client'[c]]
    BY DEF Close
  <2> QED BY <1>7, <2>1
<1>9. TermTypeOK'
  <2>1. \A c \in Clients : \A t, u \in client'[c].at : t = u
    BY <1>7 DEF TermInv, TermTypeOK
  <2>2. \A t \in Terms : /\ term'[t].fanned <= term'[t].written /\ term'[t].written <= term'[t].out
                         /\ term'[t].written - term'[t].lo < MaxReplay
    BY <1>5 DEF TermInv, TermTypeOK
  <2> QED BY <1>5, <1>6, <1>8, <2>1, <2>2 DEF TermTypeOK
<1>10. ExitsMarked'
  BY <1>5 DEF TermInv, ExitsMarked
<1>11. AttachedMissNothing'
  <2>1. ASSUME NEW c \in Clients, NEW t \in client'[c].at,
               client'[c].step = 3, client'[c].sub, ~client'[c].lost
        PROVE  /\ client'[c].from..term'[t].fanned \subseteq client'[c].got
               /\ term'[t].exits = 2 => client'[c].sawExit
    <3>1. client'[c] = client[c] /\ t \in Terms
      BY <1>1, <1>7, <2>1 DEF ClientRecs
    <3> QED BY <1>5, <2>1, <3>1 DEF TermInv, AttachedMissNothing
  <2> QED BY <2>1 DEF AttachedMissNothing
<1> QED BY <1>9, <1>10, <1>11 DEF TermInv

LEMMA TermInvInit == TermInit => TermInv
<1> SUFFICES ASSUME TermInit PROVE TermInv
  OBVIOUS
<1> USE TerminalAssumption
<1>1. FreeTerm \in TermRecs /\ FreeTerm.fanned = 0 /\ FreeTerm.written = 0 /\ FreeTerm.out = 0
      /\ FreeTerm.lo = 1 /\ FreeTerm.exits = 0
  BY DEF FreeTerm, TermRecs
<1>2. Away \in ClientRecs /\ Away.at = {}
  BY DEF Away, ClientRecs
<1>3. far \in [Remotes -> FarRecs]
  BY DEF TermInit, FarRecs
<1>4. term \in [Terms -> TermRecs] /\ \A s \in Terms : term[s] = FreeTerm
  BY <1>1 DEF TermInit
<1>5. client \in [Clients -> ClientRecs] /\ \A c \in Clients : client[c] = Away
  BY <1>2 DEF TermInit
<1>6. 0 <= 0 /\ 0 - 1 < MaxReplay
  OBVIOUS
<1> QED BY <1>1, <1>2, <1>3, <1>4, <1>5, <1>6 DEF TermInv, TermTypeOK, ExitsMarked, AttachedMissNothing

LEMMA TermInvNext == TermInv /\ [TermNext]_termVars => TermInv'
<1> SUFFICES ASSUME TermInv, [TermNext]_termVars PROVE TermInv'
  OBVIOUS
<1>1. Remotes \subseteq Terms
  BY DEF Terms
<1>2. CASE UNCHANGED termVars
  BY <1>2 DEF TermInv, TermTypeOK, ExitsMarked, AttachedMissNothing, termVars
<1>3. CASE TermNext
  BY <1>1, <1>3, TermInvShells, TermInvFanOut, TermInvExited, TermInvClients, TermInvClose
     DEF TermNext
<1> QED BY <1>2, <1>3

\* The sessions and clients keep their types, and no replay or subscriber
\* buffer holds more than its capacity (session.go).
THEOREM TermTypeCorrect == TermSpec => []TermTypeOK
<1>1. TermInv => TermTypeOK
  BY DEF TermInv
<1> QED BY <1>1, TermInvInit, TermInvNext, PTL DEF TermSpec

\* A client that attached at any moment and never overflowed its buffer has all
\* output from its replay on, and the exit (session.go, Attach and outputPump).
THEOREM AttachLosesNothing == TermSpec => []AttachedMissNothing
<1>1. TermInv => AttachedMissNothing
  BY DEF TermInv
<1> QED BY <1>1, TermInvInit, TermInvNext, PTL DEF TermSpec

=============================================================================
