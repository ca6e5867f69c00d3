---------------------------- MODULE ServiceProofs -----------------------------
(***************************************************************************)
(* Proofs about what is kept on disk, and about the local server.          *)
(*                                                                         *)
(* The settings of every backend come back, and only the backend in use is *)
(* on, for any set of backends, addresses and tokens and however many      *)
(* commands and launches.  Neither property says what is in the file, from *)
(* which the next launch takes everything.  SettingsInv does: the file     *)
(* reads as what was kept, and a save that is on its way reads as what is  *)
(* in memory.                                                              *)
(*                                                                         *)
(* The phone's cache file is a whole snapshot at every moment, however     *)
(* many are saved and however often the app ends.  ArchiveIsCurrent does   *)
(* not say what the writer thread has in its hands.  CacheInv does: there  *)
(* is at most one writer, what it writes goes to the sibling file and      *)
(* never to the one that is read, and the snapshots on their way are in    *)
(* the order they were saved in.                                           *)
(*                                                                         *)
(* A restart of the local server ends in the directory it was asked for.   *)
(* ServerInv says what a restart that is alone has achieved at each of its *)
(* steps, while the user may stop the server between any two of them: once *)
(* it has killed the child no process of that server lives but a dying     *)
(* one, once the port has fallen silent none is left, and the only one     *)
(* that can come is its own.                                                *)
(*                                                                         *)
(* Last, what the proofs say of each part holds in the composition that is *)
(* model-checked: each of its behaviours is one of the part's own.         *)
(***************************************************************************)
EXTENDS MCServices, TranscriptProofs

(* Loading `stored` gives each backend the connection `conns` has for it.   *)
ReadsAs(stored, conns) == \A k \in Agent : ConnectionOf(LoadFrom(stored), k) = conns[k]

FileInv == OnIsActive(file) /\ ReadsAs(file, kept)

SavingInv == saving # <<>> => OnIsActive(Head(saving)) /\ ReadsAs(Head(saving), last)

MemoryInv == SettingsComeBack /\ OnIsActive(settings)

SettingsInv == SettingsTypeOK /\ MemoryInv /\ FileInv /\ SavingInv

-----------------------------------------------------------------------------
(* What the operators do to a record of settings.                           *)

LEMMA SyncActiveIs ==
  ASSUME NEW s \in Stored
  PROVE  /\ SyncActive(s) \in Stored
         /\ SyncActive(s).active = s.active /\ SyncActive(s).now = s.now
         /\ SyncActive(s).auto = s.auto
         /\ \A k \in Agent : /\ SyncActive(s).per[k].conn = ConnectionOf(s, k)
                             /\ SyncActive(s).per[k].switch = s.per[k].switch
BY DEF SyncActive, Stored, Scoped, Connection, ConnectionOf

LEMMA PersistedIs ==
  ASSUME NEW s \in Stored
  PROVE  /\ Persisted(s) \in Stored
         /\ Persisted(s).active = s.active
         /\ Persisted(s).now = [address |-> s.now.address, token |-> NoToken]
         /\ \A k \in Agent : /\ Persisted(s).per[k].conn = ConnectionOf(s, k)
                             /\ Persisted(s).per[k].switch = s.per[k].switch
<1> DEFINE t == SyncActive(s)
           now == [address |-> s.now.address, token |-> NoToken]
<1>1. /\ t \in Stored /\ t.active = s.active
      /\ \A k \in Agent : t.per[k].conn = ConnectionOf(s, k) /\ t.per[k].switch = s.per[k].switch
  BY SyncActiveIs
<1>2. now \in Connection /\ [s.now EXCEPT !.token = NoToken] = now
  BY DEF Stored, Connection
<1>3. Persisted(s) = [t EXCEPT !.now = now, !.auto = TRUE]
  BY <1>2 DEF Persisted
<1> HIDE DEF t, now
<1>4. /\ Persisted(s) \in Stored /\ Persisted(s).active = t.active
      /\ Persisted(s).now = now /\ Persisted(s).per = t.per
  BY <1>1, <1>2, <1>3 DEF Stored
<1> QED
  BY <1>1, <1>4 DEF now

LEMMA ApplyScopedIs ==
  ASSUME NEW s \in Stored
  PROVE  /\ ApplyScoped(s) \in Stored
         /\ ApplyScoped(s).active = s.active
         /\ ApplyScoped(s).per = s.per
         /\ ApplyScoped(s).now.address = s.now.address
         /\ ApplyScoped(s).now.token = IF s.per[s.active].conn.token = NoToken THEN s.now.token
                                       ELSE s.per[s.active].conn.token
BY DEF ApplyScoped, Stored, Scoped, Connection

LEMMA MigrateSwitchesIs ==
  ASSUME NEW s \in Stored, OnIsActive(s)
  PROVE  /\ MigrateSwitches(s) \in Stored
         /\ OnIsActive(MigrateSwitches(s))
         /\ \A k \in Agent : ConnectionOf(MigrateSwitches(s), k) = ConnectionOf(s, k)
<1>1. CASE \E b \in Agent : s.per[b].switch # "unset"
  BY <1>1 DEF MigrateSwitches
<1>2. CASE ~\E b \in Agent : s.per[b].switch # "unset"
  <2> DEFINE t == SyncActive(s)
             per == [b \in Agent |-> [t.per[b] EXCEPT
                       !.switch = IF b = s.active /\ s.auto THEN "on" ELSE "off"]]
  <2>1. t \in Stored /\ t.active = s.active /\ t.now = s.now
    BY SyncActiveIs
  <2>2. MigrateSwitches(s) = [t EXCEPT !.per = per]
    BY <1>2, <2>1 DEF MigrateSwitches, Stored
  <2>3. per \in [Agent -> Scoped]
    BY <2>1 DEF Stored, Scoped, Switch
  <2>4. ASSUME NEW k \in Agent
        PROVE  /\ per[k].conn = ConnectionOf(s, k)
               /\ per[k].switch = "on" => k = s.active
    <3>1. per[k].conn = t.per[k].conn /\ (per[k].switch = "on" => k = s.active)
      BY <2>1 DEF Stored, Scoped, Switch
    <3> QED
      BY <3>1, SyncActiveIs
  <2> HIDE DEF t, per
  <2>5. /\ MigrateSwitches(s) \in Stored /\ MigrateSwitches(s).per = per
        /\ MigrateSwitches(s).active = s.active /\ MigrateSwitches(s).now = s.now
    BY <2>1, <2>2, <2>3 DEF Stored
  <2>6. OnIsActive(MigrateSwitches(s))
    BY <2>4, <2>5 DEF OnIsActive
  <2>7. \A k \in Agent : ConnectionOf(MigrateSwitches(s), k) = ConnectionOf(s, k)
    BY <2>4, <2>5 DEF ConnectionOf
  <2> QED
    BY <2>5, <2>6, <2>7
<1> QED
  BY <1>1, <1>2

LEMMA LoadFromIs ==
  ASSUME NEW s \in Stored, OnIsActive(s)
  PROVE  /\ LoadFrom(s) \in Stored
         /\ OnIsActive(LoadFrom(s))
         /\ \A k \in Agent : ConnectionOf(LoadFrom(s), k) = ConnectionOf(ApplyScoped(s), k)
<1>1. OnIsActive(ApplyScoped(s))
  BY ApplyScopedIs DEF OnIsActive
<1> QED
  BY <1>1, ApplyScopedIs, MigrateSwitchesIs DEF LoadFrom

(* What a save writes is read back: the token of the active backend, which  *)
(* is not written, comes from the backend's record.                         *)
LEMMA SavedIsReadBack ==
  ASSUME NEW s \in Stored, OnIsActive(s), NEW conns,
         \A k \in Agent : ConnectionOf(s, k) = conns[k]
  PROVE  /\ Persisted(s) \in Stored
         /\ OnIsActive(Persisted(s))
         /\ ReadsAs(Persisted(s), conns)
<1> DEFINE p == Persisted(s)
           r == ApplyScoped(p)
<1>1. /\ p \in Stored /\ p.active = s.active
      /\ p.now = [address |-> s.now.address, token |-> NoToken]
      /\ \A k \in Agent : p.per[k].conn = ConnectionOf(s, k)
  BY PersistedIs
<1>2. OnIsActive(p)
  BY PersistedIs DEF OnIsActive
<1> HIDE DEF p
<1>3. /\ r \in Stored /\ r.active = p.active /\ r.per = p.per
      /\ r.now.address = p.now.address
      /\ r.now.token = IF p.per[p.active].conn.token = NoToken THEN p.now.token
                       ELSE p.per[p.active].conn.token
  BY <1>1, ApplyScopedIs
<1> HIDE DEF r
<1>4. ASSUME NEW k \in Agent
      PROVE  ConnectionOf(r, k) = ConnectionOf(s, k)
  <2>1. CASE k = s.active
    <3>1. p.per[p.active].conn = s.now
      BY <1>1, <2>1 DEF ConnectionOf
    <3>2. s.now \in Connection /\ r.now \in Connection
      BY <1>3 DEF Stored
    <3>3. r.now.address = s.now.address /\ r.now.token = s.now.token
      BY <1>1, <1>3, <3>1
    <3>4. r.now = s.now
      BY <3>2, <3>3 DEF Connection
    <3> QED
      BY <1>1, <1>3, <2>1, <3>4 DEF ConnectionOf
  <2>2. CASE k # s.active
    BY <1>1, <1>3, <2>2 DEF ConnectionOf
  <2> QED
    BY <2>1, <2>2
<1>5. \A k \in Agent : ConnectionOf(LoadFrom(p), k) = conns[k]
  BY <1>1, <1>2, <1>4, LoadFromIs DEF r
<1> QED
  BY <1>1, <1>2, <1>5 DEF ReadsAs, p

LEMMA SetBackendEnabledIs ==
  ASSUME NEW s \in Stored, NEW k \in Agent, NEW on \in BOOLEAN
  PROVE  /\ SetBackendEnabled(s, k, on) \in Stored
         /\ SetBackendEnabled(s, k, on).active = s.active
         /\ \A b \in Agent : ConnectionOf(SetBackendEnabled(s, k, on), b) = ConnectionOf(s, b)
         /\ on => \A b \in Agent : SetBackendEnabled(s, k, on).per[b].switch = "on" => b = k
         /\ ~on /\ OnIsActive(s) => OnIsActive(SetBackendEnabled(s, k, on))
<1> DEFINE t == SyncActive(s)
           per == [b \in Agent |->
                    IF b = k THEN [t.per[b] EXCEPT !.switch = IF on THEN "on" ELSE "off"]
                    ELSE IF on THEN [t.per[b] EXCEPT !.switch = "off"] ELSE t.per[b]]
<1>1. t \in Stored /\ t.active = s.active /\ t.now = s.now
  BY SyncActiveIs
<1>2. SetBackendEnabled(s, k, on) = [t EXCEPT !.per = per]
  BY <1>1 DEF SetBackendEnabled, Stored
<1>3. per \in [Agent -> Scoped]
  BY <1>1 DEF Stored, Scoped, Switch
<1>4. ASSUME NEW b \in Agent
      PROVE  /\ per[b].conn = ConnectionOf(s, b)
             /\ on => (per[b].switch = "on" => b = k)
             /\ ~on => (per[b].switch = "on" => s.per[b].switch = "on")
  <2>1. t.per[b].conn = ConnectionOf(s, b) /\ t.per[b].switch = s.per[b].switch
    BY SyncActiveIs
  <2> QED
    BY <1>1, <2>1 DEF Stored, Scoped, Switch
<1> HIDE DEF t, per
<1>5. /\ SetBackendEnabled(s, k, on) \in Stored /\ SetBackendEnabled(s, k, on).per = per
      /\ SetBackendEnabled(s, k, on).active = s.active /\ SetBackendEnabled(s, k, on).now = s.now
  BY <1>1, <1>2, <1>3 DEF Stored
<1> QED
  BY <1>4, <1>5 DEF ConnectionOf, OnIsActive

LEMMA SwitchToIs ==
  ASSUME NEW s \in Stored, NEW k \in Agent
  PROVE  /\ SwitchTo(s, k) \in Stored
         /\ SwitchTo(s, k).active = k
         /\ \A b \in Agent : /\ ConnectionOf(SwitchTo(s, k), b) = ConnectionOf(s, b)
                             /\ SwitchTo(s, k).per[b].switch = s.per[b].switch
<1> DEFINE t == SyncActive(s)
<1>1. /\ t \in Stored
      /\ \A b \in Agent : t.per[b].conn = ConnectionOf(s, b) /\ t.per[b].switch = s.per[b].switch
  BY SyncActiveIs
<1>2. /\ SwitchTo(s, k) \in Stored /\ SwitchTo(s, k).active = k
      /\ SwitchTo(s, k).now = t.per[k].conn /\ SwitchTo(s, k).per = t.per
  BY <1>1 DEF SwitchTo, Stored, Scoped
<1> HIDE DEF t
<1> QED
  BY <1>1, <1>2 DEF ConnectionOf

-----------------------------------------------------------------------------
(* Every command ends in a save of settings that have the invariant.        *)
LEMMA SaveKeeps ==
  ASSUME SettingsTypeOK, FileInv,
         NEW s \in Stored, OnIsActive(s), SaveTo(s),
         UNCHANGED <<file, kept>>, last' \in [Agent -> Connection],
         \A k \in Agent : ConnectionOf(s, k) = last'[k],
         probe' \in {"none"} \cup Agent, edits' \in 0..MaxEdits
  PROVE  SettingsInv'
<1>1. settings' = s /\ saving' = <<Persisted(s)>>
  BY DEF SaveTo
<1>2. Persisted(s) \in Stored /\ OnIsActive(Persisted(s)) /\ ReadsAs(Persisted(s), last')
  BY SavedIsReadBack
<1>3. saving' \in Seq(Stored) /\ Len(saving') <= 1 /\ Head(saving') = Persisted(s)
  BY <1>1, <1>2
<1>4. SettingsTypeOK'
  BY <1>1, <1>3 DEF SettingsTypeOK
<1>5. MemoryInv'
  BY <1>1 DEF MemoryInv, SettingsComeBack, OnIsActive, ConnectionOf
<1>6. FileInv'
  BY DEF FileInv, OnIsActive, ReadsAs
<1>7. SavingInv'
  BY <1>2, <1>3 DEF SavingInv, ReadsAs, OnIsActive
<1> QED
  BY <1>4, <1>5, <1>6, <1>7 DEF SettingsInv

LEMMA SettingsInvInit == SettingsInit => SettingsInv
<1> SUFFICES ASSUME SettingsInit PROVE SettingsInv
  OBVIOUS
<1>1. PICK k \in Agent, conns \in [Agent -> Connection], on \in BOOLEAN :
        LET old == [active |-> k, now |-> [conns[k] EXCEPT !.token = NoToken],
                    per |-> [b \in Agent |-> [conn |-> conns[b], switch |-> "unset"]],
                    auto |-> on]
        IN /\ settings = LoadFrom(old)
           /\ file = old /\ saving = <<Persisted(LoadFrom(old))>>
           /\ probe = "none"
           /\ last = conns /\ kept = conns
           /\ edits = 0
  BY DEF SettingsInit
<1> DEFINE old == [active |-> k, now |-> [conns[k] EXCEPT !.token = NoToken],
                   per |-> [b \in Agent |-> [conn |-> conns[b], switch |-> "unset"]],
                   auto |-> on]
<1>2. old \in Stored /\ OnIsActive(old)
  BY DEF Stored, Scoped, Switch, Connection, OnIsActive
<1>3. ASSUME NEW b \in Agent
      PROVE  ConnectionOf(ApplyScoped(old), b) = conns[b]
  <2>1. ApplyScoped(old).per[b].conn = conns[b] /\ ApplyScoped(old).active = k
    BY <1>2, ApplyScopedIs
  <2>2. CASE b = k
    <3>1. /\ ApplyScoped(old).now \in Connection /\ conns[k] \in Connection
          /\ ApplyScoped(old).now.address = conns[k].address
          /\ ApplyScoped(old).now.token = conns[k].token
      BY <1>2, ApplyScopedIs DEF Stored, Connection
    <3>2. ApplyScoped(old).now = conns[k]
      BY <3>1 DEF Connection
    <3> QED
      BY <2>1, <2>2, <3>2 DEF ConnectionOf
  <2>3. CASE b # k
    BY <2>1, <2>3 DEF ConnectionOf
  <2> QED
    BY <2>2, <2>3
<1>4. /\ settings = LoadFrom(old) /\ file = old /\ saving = <<Persisted(settings)>>
      /\ probe = "none" /\ last = conns /\ kept = conns /\ edits = 0
  BY <1>1
<1> HIDE DEF old
<1>5. /\ settings \in Stored /\ OnIsActive(settings)
      /\ \A b \in Agent : ConnectionOf(settings, b) = conns[b]
  BY <1>2, <1>3, <1>4, LoadFromIs
<1>6. Persisted(settings) \in Stored /\ OnIsActive(Persisted(settings)) /\ ReadsAs(Persisted(settings), last)
  BY <1>4, <1>5, SavedIsReadBack
<1>7. saving \in Seq(Stored) /\ Len(saving) <= 1 /\ Head(saving) = Persisted(settings)
  BY <1>4, <1>6
<1>8. SettingsTypeOK
  BY <1>2, <1>4, <1>5, <1>7, SettingsAssumption DEF SettingsTypeOK
<1>9. MemoryInv
  BY <1>4, <1>5 DEF MemoryInv, SettingsComeBack
<1>10. FileInv
  BY <1>2, <1>4, <1>5 DEF FileInv, ReadsAs
<1>11. SavingInv
  BY <1>6, <1>7 DEF SavingInv
<1> QED
  BY <1>8, <1>9, <1>10, <1>11 DEF SettingsInv

-----------------------------------------------------------------------------
(* One lemma per command.                                                   *)

LEMMA SaveRenamesKeeps == SettingsInv /\ SaveRenames => SettingsInv'
<1> SUFFICES ASSUME SettingsInv, SaveRenames PROVE SettingsInv'
  OBVIOUS
<1>1. Head(saving) \in Stored /\ <<>> \in Seq(Stored) /\ Len(<<>>) <= 1
  BY DEF SettingsInv, SettingsTypeOK, SaveRenames
<1>2. SettingsTypeOK'
  BY <1>1 DEF SettingsInv, SettingsTypeOK, SaveRenames
<1>3. MemoryInv'
  BY DEF SettingsInv, MemoryInv, SettingsComeBack, OnIsActive, ConnectionOf, SaveRenames
<1>4. FileInv'
  BY DEF SettingsInv, SavingInv, FileInv, OnIsActive, ReadsAs, SaveRenames
<1>5. SavingInv'
  BY DEF SavingInv, SaveRenames
<1> QED
  BY <1>2, <1>3, <1>4, <1>5 DEF SettingsInv

(* What is in the flat fields is the active backend's, and no other's.      *)
LEMMA NowIsTheActives ==
  ASSUME NEW s \in Stored, NEW conn \in Connection, NEW t, t = [s EXCEPT !.now = conn]
  PROVE  /\ t \in Stored
         /\ OnIsActive(s) => OnIsActive(t)
         /\ \A k \in Agent : ConnectionOf(t, k) = IF k = s.active THEN conn ELSE ConnectionOf(s, k)
<1>1. t \in Stored /\ t.active = s.active /\ t.now = conn /\ t.per = s.per
  BY DEF Stored
<1>2. OnIsActive(s) => OnIsActive(t)
  BY <1>1 DEF OnIsActive
<1>3. \A k \in Agent : ConnectionOf(t, k) = IF k = s.active THEN conn ELSE ConnectionOf(s, k)
  BY <1>1 DEF ConnectionOf
<1> QED
  BY <1>1, <1>2, <1>3

LEMMA TypeKeeps == SettingsInv /\ Type => SettingsInv'
<1> SUFFICES ASSUME SettingsInv, NEW conn \in Connection,
                    Edit, SaveTo([settings EXCEPT !.now = conn]),
                    last' = [last EXCEPT ![settings.active] = conn],
                    UNCHANGED <<file, probe, kept>>
             PROVE  SettingsInv'
  BY DEF Type
<1> DEFINE t == [settings EXCEPT !.now = conn]
<1>1. settings \in Stored /\ last \in [Agent -> Connection] /\ edits' \in 0..MaxEdits
  BY SettingsAssumption DEF SettingsInv, SettingsTypeOK, Edit
<1>2. /\ t \in Stored /\ OnIsActive(t)
      /\ \A k \in Agent : ConnectionOf(t, k) = IF k = settings.active THEN conn ELSE ConnectionOf(settings, k)
  BY <1>1, NowIsTheActives DEF SettingsInv, MemoryInv
<1>3. last' \in [Agent -> Connection] /\ \A k \in Agent : last'[k] = IF k = settings.active THEN conn ELSE last[k]
  BY <1>1
<1> HIDE DEF t
<1>4. \A k \in Agent : ConnectionOf(t, k) = last'[k]
  BY <1>2, <1>3 DEF SettingsInv, MemoryInv, SettingsComeBack
<1>5. SaveTo(t)
  BY DEF t
<1> QED
  BY <1>1, <1>2, <1>3, <1>4, <1>5, SaveKeeps DEF SettingsInv, SettingsTypeOK

LEMMA SetRefusedKeeps == SettingsInv /\ SetRefused => SettingsInv'
<1> SUFFICES ASSUME SettingsInv, NEW address \in Address, Edit,
                    settings' = [settings EXCEPT !.now.address = address],
                    last' = [last EXCEPT ![settings.active].address = address],
                    UNCHANGED <<file, saving, probe, kept>>
             PROVE  SettingsInv'
  BY DEF SetRefused
<1> DEFINE conn == [settings.now EXCEPT !.address = address]
<1>1. settings \in Stored /\ settings.now \in Connection /\ last \in [Agent -> Connection] /\ edits' \in 0..MaxEdits
  BY SettingsAssumption DEF SettingsInv, SettingsTypeOK, Edit, Stored
<1>2. conn \in Connection /\ settings' = [settings EXCEPT !.now = conn]
  BY <1>1 DEF Connection
<1>3. settings.active \in Agent /\ last[settings.active] = settings.now
  BY <1>1 DEF SettingsInv, MemoryInv, SettingsComeBack, ConnectionOf, Stored
<1>4. last' = [last EXCEPT ![settings.active] = conn]
  BY <1>3
<1> HIDE DEF conn
<1>5. /\ settings' \in Stored /\ OnIsActive(settings)'
      /\ \A k \in Agent : ConnectionOf(settings', k) = IF k = settings.active THEN conn ELSE ConnectionOf(settings, k)
  BY <1>1, <1>2, NowIsTheActives DEF SettingsInv, MemoryInv, OnIsActive
<1>6. SettingsTypeOK'
  BY <1>1, <1>2, <1>4, <1>5 DEF SettingsInv, SettingsTypeOK
<1>7. MemoryInv'
  BY <1>1, <1>4, <1>5 DEF SettingsInv, MemoryInv, SettingsComeBack, ConnectionOf
<1>8. FileInv'
  BY DEF SettingsInv, FileInv, OnIsActive, ReadsAs
<1>9. SavingInv'
  BY DEF SavingInv, Edit
<1> QED
  BY <1>6, <1>7, <1>8, <1>9 DEF SettingsInv

LEMMA EnableBackendKeeps == SettingsInv /\ EnableBackend => SettingsInv'
<1> SUFFICES ASSUME SettingsInv, NEW k \in Agent, Edit,
                    SaveTo(SwitchTo(SetBackendEnabled(settings, k, TRUE), k)),
                    probe' = "none", UNCHANGED <<file, last, kept>>
             PROVE  SettingsInv'
  BY DEF EnableBackend
<1> DEFINE s == SetBackendEnabled(settings, k, TRUE)
           t == SwitchTo(s, k)
<1>1. settings \in Stored /\ last \in [Agent -> Connection] /\ edits' \in 0..MaxEdits
  BY SettingsAssumption DEF SettingsInv, SettingsTypeOK, Edit
<1>2. /\ s \in Stored
      /\ \A b \in Agent : ConnectionOf(s, b) = ConnectionOf(settings, b) /\ (s.per[b].switch = "on" => b = k)
  BY <1>1, SetBackendEnabledIs
<1> HIDE DEF s
<1>3. /\ t \in Stored /\ t.active = k
      /\ \A b \in Agent : ConnectionOf(t, b) = ConnectionOf(s, b) /\ t.per[b].switch = s.per[b].switch
  BY <1>2, SwitchToIs
<1> HIDE DEF t
<1>4. OnIsActive(t)
  BY <1>2, <1>3 DEF OnIsActive
<1>5. \A b \in Agent : ConnectionOf(t, b) = last'[b]
  BY <1>2, <1>3 DEF SettingsInv, MemoryInv, SettingsComeBack
<1>6. SaveTo(t)
  BY DEF t, s
<1> QED
  BY <1>1, <1>3, <1>4, <1>5, <1>6, SaveKeeps DEF SettingsInv, SettingsTypeOK

LEMMA DisableBackendKeeps == SettingsInv /\ DisableBackend => SettingsInv'
<1> SUFFICES ASSUME SettingsInv, NEW k \in Agent, Edit,
                    SaveTo(SetBackendEnabled(settings, k, FALSE)),
                    probe' = IF k = settings.active THEN "none" ELSE probe,
                    UNCHANGED <<file, last, kept>>
             PROVE  SettingsInv'
  BY DEF DisableBackend
<1> DEFINE s == SetBackendEnabled(settings, k, FALSE)
<1>1. /\ settings \in Stored /\ last \in [Agent -> Connection] /\ edits' \in 0..MaxEdits
      /\ probe' \in {"none"} \cup Agent
  BY SettingsAssumption DEF SettingsInv, SettingsTypeOK, Edit
<1>2. /\ s \in Stored /\ OnIsActive(s)
      /\ \A b \in Agent : ConnectionOf(s, b) = ConnectionOf(settings, b)
  BY <1>1, SetBackendEnabledIs DEF SettingsInv, MemoryInv
<1> HIDE DEF s
<1>3. \A b \in Agent : ConnectionOf(s, b) = last'[b]
  BY <1>2 DEF SettingsInv, MemoryInv, SettingsComeBack
<1>4. SaveTo(s)
  BY DEF s
<1> QED
  BY <1>1, <1>2, <1>3, <1>4, SaveKeeps DEF SettingsInv

LEMMA ProbeAnswersKeeps == SettingsInv /\ ProbeAnswers => SettingsInv'
<1> SUFFICES ASSUME SettingsInv, NEW token \in Token, Edit, probe' = "none",
                    SaveTo([settings EXCEPT !.now.token = token]),
                    last' = [last EXCEPT ![settings.active].token = token],
                    UNCHANGED <<file, kept>>
             PROVE  SettingsInv'
  BY DEF ProbeAnswers
<1> DEFINE conn == [settings.now EXCEPT !.token = token]
           t == [settings EXCEPT !.now = conn]
<1>1. settings \in Stored /\ settings.now \in Connection /\ last \in [Agent -> Connection] /\ edits' \in 0..MaxEdits
  BY SettingsAssumption DEF SettingsInv, SettingsTypeOK, Edit, Stored
<1>2. conn \in Connection
  BY <1>1 DEF Connection
<1>3. settings.active \in Agent /\ last[settings.active] = settings.now
  BY <1>1 DEF SettingsInv, MemoryInv, SettingsComeBack, ConnectionOf, Stored
<1>4. last' = [last EXCEPT ![settings.active] = conn]
  BY <1>3
<1>5. SaveTo(t)
  OBVIOUS
<1> HIDE DEF conn
<1>6. /\ t \in Stored /\ OnIsActive(t)
      /\ \A k \in Agent : ConnectionOf(t, k) = IF k = settings.active THEN conn ELSE ConnectionOf(settings, k)
  BY <1>1, <1>2, NowIsTheActives DEF SettingsInv, MemoryInv
<1> HIDE DEF t
<1>7. last' \in [Agent -> Connection] /\ \A k \in Agent : ConnectionOf(t, k) = last'[k]
  BY <1>1, <1>2, <1>4, <1>6 DEF SettingsInv, MemoryInv, SettingsComeBack
<1> QED
  BY <1>1, <1>5, <1>6, <1>7, SaveKeeps DEF SettingsInv

LEMMA RelaunchKeeps == SettingsInv /\ Relaunch => SettingsInv'
<1> SUFFICES ASSUME SettingsInv, Relaunch PROVE SettingsInv'
  OBVIOUS
<1>1. file \in Stored /\ kept \in [Agent -> Connection] /\ edits' \in 0..MaxEdits
  BY SettingsAssumption DEF SettingsInv, SettingsTypeOK, Relaunch
<1>2. /\ LoadFrom(file) \in Stored /\ OnIsActive(LoadFrom(file))
      /\ \A k \in Agent : ConnectionOf(LoadFrom(file), k) = last'[k]
  BY <1>1, LoadFromIs DEF SettingsInv, FileInv, ReadsAs, Relaunch
<1> QED
  BY <1>1, <1>2, SaveKeeps DEF SettingsInv, Relaunch

(* Steps that change nothing the invariant speaks of.                       *)
LEMMA ProbeAsksKeeps == SettingsInv /\ (ProbeAsks \/ UNCHANGED settingsVars) => SettingsInv'
<1> SUFFICES ASSUME SettingsInv, UNCHANGED <<settings, file, saving, last, kept, edits>>,
                    probe' \in {"none"} \cup Agent
             PROVE  SettingsInv'
  BY DEF ProbeAsks, settingsVars, SettingsInv, SettingsTypeOK, Stored
<1> QED
  BY DEF SettingsInv, SettingsTypeOK, MemoryInv, SettingsComeBack, FileInv, SavingInv,
         OnIsActive, ReadsAs, ConnectionOf

-----------------------------------------------------------------------------
LEMMA SettingsInvNext == SettingsInv /\ [SettingsNext]_settingsVars => SettingsInv'
BY SaveRenamesKeeps, TypeKeeps, SetRefusedKeeps, EnableBackendKeeps, DisableBackendKeeps,
   ProbeAsksKeeps, ProbeAnswersKeeps, RelaunchKeeps DEF SettingsNext

LEMMA SettingsInvHolds == SettingsSpec => []SettingsInv
BY SettingsInvInit, SettingsInvNext, PTL DEF SettingsSpec

(* Settings' records, the file and a save on its way keep their types       *)
(* (settings.rs).                                                           *)
THEOREM SettingsTypeCorrect == SettingsSpec => []SettingsTypeOK
<1>1. SettingsInv => SettingsTypeOK
  BY DEF SettingsInv
<1> QED
  BY <1>1, SettingsInvHolds, PTL

(* A backend chosen again, after other backends and launches, is as it was  *)
(* left: sync_active_connection, switch_backend, save_to and load_from lose *)
(* nothing between them.                                                    *)
THEOREM SettingsCorrect == SettingsSpec => []SettingsComeBack
<1>1. SettingsInv => SettingsComeBack
  BY DEF SettingsInv, MemoryInv
<1> QED
  BY <1>1, SettingsInvHolds, PTL

(* At most the backend in use is on, in memory and in the file              *)
(* (set_backend_enabled, migrate_switches).                                 *)
THEOREM OneBackendOn == SettingsSpec => []OnlyActiveIsOn
<1>1. SettingsInv => OnlyActiveIsOn
  BY DEF SettingsInv, MemoryInv, FileInv, OnlyActiveIsOn
<1> QED
  BY <1>1, SettingsInvHolds, PTL

-----------------------------------------------------------------------------
(* The phone's cache.                                                       *)

OneWriter == \A w, x \in writers : w = x

(* The sibling file of the writer holds what it has written so far.         *)
WritesBeside ==
  /\ tmp # 0 => tmp # path
  /\ \A w \in writers :
       /\ w.at = "write" => tmp # 0 /\ w.file = tmp /\ contents[tmp] = <<>>
       /\ w.at = "rename" => tmp # 0 /\ w.file = tmp /\ contents[tmp] = <<w.snapshot>>

(* Oldest first: the file, the writer, the queue, and the last save.        *)
SavedInOrder ==
  /\ snapshot <= saves /\ Written <= saves
  /\ \A w \in writers : Written < w.snapshot /\ w.snapshot <= saves
  /\ \A i \in DOMAIN queue :
       /\ Written < queue[i] /\ queue[i] <= saves
       /\ \A w \in writers : w.snapshot < queue[i]
       /\ \A j \in DOMAIN queue : i < j => queue[i] < queue[j]

(* The newest of those on their way is what is in memory.                   *)
NewestIsInMemory ==
  /\ queue # <<>> => queue[Len(queue)] = snapshot
  /\ queue = <<>> => \A w \in writers : w.snapshot = snapshot
  /\ queue = <<>> /\ writers = {} => snapshot = Written

MobileInv ==
  /\ OneWriter /\ WritesBeside /\ SavedInOrder /\ NewestIsInMemory
  /\ path # 0 => IsWhole(path)

CacheInv == CacheTypeOK /\ (frontend = "mobile" => MobileInv)

-----------------------------------------------------------------------------
LEMMA CacheInvInit == CacheInit => CacheInv
BY CacheAssumption
DEF CacheInit, CacheInv, CacheTypeOK, MobileInv, OneWriter, WritesBeside, SavedInOrder, NewestIsInMemory, Written

LEMMA SaveKeepsCache == CacheInv /\ Save => CacheInv'
<1> SUFFICES ASSUME CacheInv, Save PROVE CacheInv'
  OBVIOUS
<1> USE CacheAssumption
<1>1. saves + 1 \in 1..MaxSaves /\ Opening(saves + 1) \in Writer
  BY DEF CacheInv, CacheTypeOK, Save, Opening, Writer
<1>2. CacheTypeOK'
  <2>1. queue \in Seq(1..MaxSaves) => Append(queue, saves + 1) \in Seq(1..MaxSaves)
    BY <1>1, AppendProperties
  <2>2. queue' \in Seq(1..MaxSaves)
    BY <2>1 DEF CacheInv, CacheTypeOK, Save
  <2>3. writers' \subseteq Writer
    BY <1>1 DEF CacheInv, CacheTypeOK, Save
  <2> QED
    BY <1>1, <2>2, <2>3 DEF CacheInv, CacheTypeOK, Save
<1>3. ASSUME frontend = "mobile" PROVE MobileInv'
  <2>1. /\ queue \in Seq(1..MaxSaves) /\ queue' = Append(queue, saves + 1)
        /\ snapshot' = saves + 1 /\ saves' = saves + 1 /\ saves \in Nat
        /\ UNCHANGED <<writers, contents, tmp, path, Written>>
    BY <1>3 DEF CacheInv, CacheTypeOK, Save, Written
  <2>2. /\ Len(queue) \in Nat /\ queue' # <<>> /\ Len(queue') = Len(queue) + 1
        /\ DOMAIN queue = 1..Len(queue) /\ DOMAIN queue' = 1..(Len(queue) + 1)
        /\ queue'[Len(queue) + 1] = saves + 1
        /\ \A i \in 1..Len(queue) : queue'[i] = queue[i] /\ queue[i] \in Nat
    BY <1>1, <2>1, AppendProperties, LenProperties
  <2>3. MobileInv
    BY <1>3 DEF CacheInv
  <2>4. SavedInOrder'
    <3>1. /\ Written \in Int /\ \A w \in writers : w.snapshot \in Nat
      BY <2>3, <1>3 DEF CacheInv, CacheTypeOK, Writer, Written, MobileInv, IsWhole
    <3> QED
      BY <2>1, <2>2, <2>3, <3>1 DEF MobileInv, SavedInOrder
  <2> QED
    BY <2>1, <2>2, <2>3, <2>4 DEF MobileInv, OneWriter, WritesBeside, NewestIsInMemory, IsWhole
<1> QED
  BY <1>2, <1>3 DEF CacheInv, Save

LEMMA TakeKeepsCache == CacheInv /\ WriterTakes => CacheInv'
<1> SUFFICES ASSUME CacheInv, WriterTakes PROVE CacheInv'
  OBVIOUS
<1>1. /\ queue \in Seq(1..MaxSaves) /\ queue # <<>> /\ queue' = Tail(queue)
      /\ writers = {} /\ writers' = {Opening(queue[1])}
      /\ UNCHANGED <<frontend, snapshot, saves, contents, tmp, path, Written>>
  BY DEF CacheInv, CacheTypeOK, WriterTakes, Written
<1>2. /\ Len(queue) \in Nat \ {0} /\ DOMAIN queue = 1..Len(queue)
      /\ queue' \in Seq(1..MaxSaves)
      /\ Len(queue') = Len(queue) - 1 /\ DOMAIN queue' = 1..(Len(queue) - 1)
      /\ \A i \in 1..(Len(queue) - 1) : queue'[i] = queue[i + 1]
      /\ \A i \in 1..Len(queue) : queue[i] \in 1..MaxSaves
  BY <1>1, HeadTailProperties, LenProperties, EmptySeq, ElementOfSeq
<1>3. CacheTypeOK'
  <2>1. Opening(queue[1]) \in Writer
    BY <1>2 DEF Opening, Writer
  <2> QED
    BY <1>1, <1>2, <2>1 DEF CacheInv, CacheTypeOK, WriterTakes
<1>4. ASSUME frontend = "mobile" PROVE MobileInv'
  <2>1. MobileInv
    BY <1>4 DEF CacheInv
  <2>2. SavedInOrder'
    <3>1. snapshot' <= saves' /\ Written' <= saves'
      BY <1>1, <2>1 DEF MobileInv, SavedInOrder
    <3>2. \A w \in writers' : Written' < w.snapshot /\ w.snapshot <= saves'
      BY <1>1, <1>2, <2>1 DEF MobileInv, SavedInOrder, Opening
    <3>3. ASSUME NEW i \in 1..(Len(queue) - 1)
          PROVE  /\ Written' < queue'[i] /\ queue'[i] <= saves'
                 /\ \A w \in writers' : w.snapshot < queue'[i]
                 /\ \A j \in 1..(Len(queue) - 1) : i < j => queue'[i] < queue'[j]
      <4>1. queue'[i] = queue[i + 1] /\ i + 1 \in 1..Len(queue) /\ 1 < i + 1 /\ 1 \in 1..Len(queue)
        BY <1>2
      <4>2. \A w \in writers' : w.snapshot = queue[1]
        BY <1>1 DEF Opening
      <4>3. ASSUME NEW j \in 1..(Len(queue) - 1), i < j PROVE queue'[i] < queue'[j]
        <5>1. queue'[j] = queue[j + 1] /\ j + 1 \in 1..Len(queue) /\ i + 1 < j + 1
          BY <1>2, <4>3
        <5> QED
          BY <1>2, <2>1, <4>1, <5>1 DEF MobileInv, SavedInOrder
      <4> QED
        BY <1>1, <1>2, <2>1, <4>1, <4>2, <4>3 DEF MobileInv, SavedInOrder
    <3> QED
      BY <1>2, <3>1, <3>2, <3>3 DEF SavedInOrder
  <2>3. NewestIsInMemory'
    <3>1. CASE queue' # <<>>
      <4>1. Len(queue) # 1
        BY <1>2, <3>1, EmptySeq
      <4>2. queue'[Len(queue')] = queue[Len(queue)]
        BY <1>2, <4>1
      <4> QED
        BY <1>1, <2>1, <3>1, <4>2 DEF MobileInv, NewestIsInMemory
    <3>2. CASE queue' = <<>>
      <4>1. Len(queue) = 1
        <5>1. Len(queue') = 0
          BY <3>2, EmptySeq
        <5>2. Len(queue) \in Nat /\ Len(queue') = Len(queue) - 1
          BY <1>2
        <5> QED
          BY <5>1, <5>2
      <4> QED
        <5>1. snapshot' = queue[1]
          BY <1>1, <2>1, <4>1 DEF MobileInv, NewestIsInMemory
        <5>2. \A w \in writers' : w.snapshot = queue[1]
          BY <1>1 DEF Opening
        <5>3. writers' # {}
          BY <1>1
        <5> QED
          BY <3>2, <5>1, <5>2, <5>3 DEF NewestIsInMemory
    <3> QED
      BY <3>1, <3>2
  <2> QED
    BY <1>1, <2>1, <2>2, <2>3 DEF MobileInv, OneWriter, WritesBeside, IsWhole, Opening
<1> QED
  BY <1>1, <1>3, <1>4 DEF CacheInv

(* A step of the only writer, which becomes x: it keeps its snapshot.       *)
LEMMA WriterStepKeeps ==
  ASSUME MobileInv, OneWriter, NEW w \in writers, NEW x, x.snapshot = w.snapshot,
         writers' = (writers \ {w}) \cup {x},
         UNCHANGED <<snapshot, saves, queue, Written>>
  PROVE  writers' = {x} /\ OneWriter' /\ SavedInOrder' /\ NewestIsInMemory'
<1>1. writers = {w} /\ writers' = {x}
  BY DEF OneWriter
<1> QED
  BY <1>1 DEF MobileInv, OneWriter, SavedInOrder, NewestIsInMemory

LEMMA OpenKeepsCache == CacheInv /\ WriterOpens => CacheInv'
<1> SUFFICES ASSUME CacheInv, WriterOpens PROVE CacheInv'
  OBVIOUS
<1> DEFINE f == IF tmp = 0 THEN Len(contents) + 1 ELSE tmp
<1>1. PICK w \in writers :
        /\ contents' = IF tmp = 0 THEN Append(contents, <<>>) ELSE [contents EXCEPT ![f] = <<>>]
        /\ tmp' = f
        /\ writers' = (writers \ {w}) \cup {[w EXCEPT !.file = f, !.at = "write"]}
        /\ UNCHANGED <<frontend, snapshot, saves, queue, path, launches>>
  BY DEF WriterOpens
<1>2. /\ contents \in Seq(Seq(1..MaxSaves)) /\ <<>> \in Seq(1..MaxSaves)
      /\ tmp \in 0..Len(contents) /\ path \in 0..Len(contents) /\ Len(contents) \in Nat
      /\ writers \subseteq Writer
  BY EmptySeq, LenProperties DEF CacheInv, CacheTypeOK
<1>3. /\ contents' \in Seq(Seq(1..MaxSaves)) /\ Len(contents') \in Nat
      /\ f \in 1..Len(contents') /\ Len(contents) <= Len(contents')
      /\ contents'[f] = <<>>
      /\ \A g \in 1..Len(contents) : g # f => contents'[g] = contents[g]
  <2>1. CASE tmp = 0
    BY <1>1, <1>2, <2>1, AppendProperties, LenProperties
  <2>2. CASE tmp # 0
    BY <1>1, <1>2, <2>2, ExceptSeq, LenProperties
  <2> QED
    BY <2>1, <2>2
<1> HIDE DEF f
<1> DEFINE x == [w EXCEPT !.file = f, !.at = "write"]
<1>4. x \in Writer /\ x.snapshot = w.snapshot /\ x.file = f /\ x.at = "write"
  <2>1. w \in Writer /\ f \in Nat /\ "write" \in {"open", "write", "rename"}
    BY <1>2, <1>3
  <2> QED
    BY <2>1 DEF Writer
<1> HIDE DEF x
<1>5. writers' = (writers \ {w}) \cup {x}
  BY <1>1 DEF x
<1>6. CacheTypeOK'
  BY <1>1, <1>2, <1>3, <1>4, <1>5 DEF CacheInv, CacheTypeOK
<1>7. ASSUME frontend = "mobile" PROVE MobileInv'
  <2>1. MobileInv /\ OneWriter
    BY <1>7 DEF CacheInv, MobileInv
  <2>2. f # path
    BY <1>2, <2>1 DEF MobileInv, WritesBeside, f
  <2>3. path' = path /\ (path # 0 => contents'[path] = contents[path])
    <3>1. path' = path
      BY <1>1
    <3>2. path # 0 => path \in 1..Len(contents)
      BY <1>2
    <3> QED
      BY <1>3, <2>2, <3>1, <3>2
  <2>4. UNCHANGED Written
    BY <2>3 DEF Written
  <2>5. writers' = {x} /\ OneWriter' /\ SavedInOrder' /\ NewestIsInMemory'
    BY <1>1, <1>4, <1>5, <2>1, <2>4, WriterStepKeeps
  <2>6. WritesBeside'
    <3>1. tmp' = f /\ path' = path
      BY <1>1
    <3> QED
      BY <1>3, <1>4, <2>2, <2>5, <3>1 DEF WritesBeside
  <2>7. path' # 0 => IsWhole(path)'
    BY <2>1, <2>3 DEF MobileInv, IsWhole
  <2> QED
    BY <2>5, <2>6, <2>7 DEF MobileInv
<1> QED
  BY <1>1, <1>6, <1>7 DEF CacheInv

LEMMA WriteKeepsCache == CacheInv /\ WriterWrites => CacheInv'
<1> SUFFICES ASSUME CacheInv, WriterWrites PROVE CacheInv'
  OBVIOUS
<1>1. PICK w \in writers :
        /\ w.at = "write"
        /\ contents' = [contents EXCEPT ![w.file] = Append(@, w.snapshot)]
        /\ writers' = (writers \ {w}) \cup {[w EXCEPT !.at = "rename"]}
        /\ UNCHANGED <<frontend, snapshot, saves, queue, tmp, path, launches>>
  BY DEF WriterWrites
<1>2. /\ contents \in Seq(Seq(1..MaxSaves)) /\ writers \subseteq Writer
      /\ w \in Writer /\ w.snapshot \in 1..MaxSaves
      /\ tmp \in 0..Len(contents) /\ path \in 0..Len(contents) /\ Len(contents) \in Nat
      /\ DOMAIN contents = 1..Len(contents)
  BY <1>1, LenProperties DEF CacheInv, CacheTypeOK, Writer
<1>3. /\ contents' \in Seq(Seq(1..MaxSaves)) /\ Len(contents') = Len(contents)
      /\ \A g \in 1..Len(contents) : g # w.file => contents'[g] = contents[g]
      /\ w.file \in 1..Len(contents) => contents'[w.file] = Append(contents[w.file], w.snapshot)
  <2>1. CASE w.file \in 1..Len(contents)
    <3>1. Append(contents[w.file], w.snapshot) \in Seq(1..MaxSaves)
      BY <1>2, <2>1, ElementOfSeq, AppendProperties
    <3> QED
      BY <1>1, <1>2, <2>1, <3>1, ExceptSeq
  <2>2. CASE w.file \notin 1..Len(contents)
    <3>1. contents' = contents
      BY <1>1, <1>2, <2>2, LenProperties
    <3> QED
      BY <1>2, <2>2, <3>1
  <2> QED
    BY <2>1, <2>2
<1> DEFINE x == [w EXCEPT !.at = "rename"]
<1>4. x \in Writer /\ x.snapshot = w.snapshot /\ x.file = w.file /\ x.at = "rename"
  BY <1>2 DEF Writer
<1> HIDE DEF x
<1>5. writers' = (writers \ {w}) \cup {x}
  BY <1>1 DEF x
<1>6. CacheTypeOK'
  BY <1>1, <1>2, <1>3, <1>4, <1>5 DEF CacheInv, CacheTypeOK
<1>7. ASSUME frontend = "mobile" PROVE MobileInv'
  <2>1. MobileInv /\ OneWriter
    BY <1>7 DEF CacheInv, MobileInv
  <2>2. w.file = tmp /\ tmp # 0 /\ tmp # path /\ contents[tmp] = <<>>
    BY <1>1, <2>1 DEF MobileInv, WritesBeside
  <2>3. path' = path /\ (path # 0 => contents'[path] = contents[path])
    <3>1. path' = path
      BY <1>1
    <3>2. path # 0 => path \in 1..Len(contents)
      BY <1>2
    <3> QED
      BY <1>3, <2>2, <3>1, <3>2
  <2>4. UNCHANGED Written
    BY <2>3 DEF Written
  <2>5. writers' = {x} /\ OneWriter' /\ SavedInOrder' /\ NewestIsInMemory'
    BY <1>1, <1>4, <1>5, <2>1, <2>4, WriterStepKeeps
  <2>6. contents'[tmp] = <<w.snapshot>>
    <3>1. tmp \in 1..Len(contents)
      BY <1>2, <2>2
    <3>2. contents'[tmp] = Append(<<>>, w.snapshot)
      BY <1>3, <2>2, <3>1
    <3> QED
      BY <3>2
  <2>7. WritesBeside'
    BY <1>1, <1>4, <2>2, <2>5, <2>6 DEF WritesBeside
  <2>8. path' # 0 => IsWhole(path)'
    BY <2>1, <2>3 DEF MobileInv, IsWhole
  <2> QED
    BY <2>5, <2>7, <2>8 DEF MobileInv
<1> QED
  BY <1>1, <1>6, <1>7 DEF CacheInv

LEMMA RenameKeepsCache == CacheInv /\ WriterRenames => CacheInv'
<1> SUFFICES ASSUME CacheInv, WriterRenames PROVE CacheInv'
  OBVIOUS
<1>1. PICK w \in writers :
        /\ w.at = "rename"
        /\ IF tmp = 0 THEN UNCHANGED <<path, tmp>> ELSE path' = tmp /\ tmp' = 0
        /\ writers' = writers \ {w}
        /\ UNCHANGED <<frontend, snapshot, saves, queue, contents, launches>>
  BY DEF WriterRenames
<1>2. CacheTypeOK'
  BY <1>1, LenProperties DEF CacheInv, CacheTypeOK
<1>3. ASSUME frontend = "mobile" PROVE MobileInv'
  <2>1. MobileInv
    BY <1>3 DEF CacheInv
  <2>2. tmp # 0 /\ contents[tmp] = <<w.snapshot>> /\ writers' = {} /\ path' = tmp /\ tmp' = 0
    BY <1>1, <2>1 DEF MobileInv, WritesBeside, OneWriter
  <2>3. Written' = w.snapshot /\ Len(contents[tmp]) = 1
    BY <1>1, <2>2 DEF Written
  <2>4. SavedInOrder'
    BY <1>1, <2>1, <2>2, <2>3 DEF MobileInv, SavedInOrder
  <2>5. NewestIsInMemory'
    BY <1>1, <2>1, <2>2, <2>3 DEF MobileInv, NewestIsInMemory
  <2> QED
    BY <1>1, <2>2, <2>3, <2>4, <2>5 DEF MobileInv, OneWriter, WritesBeside, IsWhole
<1> QED
  BY <1>1, <1>2, <1>3 DEF CacheInv

LEMMA ClearKeepsCache == CacheInv /\ Clear => CacheInv'
BY CacheAssumption, LenProperties DEF Clear, CacheInv, CacheTypeOK

LEMMA RelaunchKeepsCache == CacheInv /\ Relaunches => CacheInv'
<1> SUFFICES ASSUME CacheInv, Relaunches PROVE CacheInv'
  OBVIOUS
<1> USE CacheAssumption
<1>1. /\ queue' = <<>> /\ writers' = {} /\ UNCHANGED <<frontend, saves, contents, tmp, path, Written>>
  BY DEF Relaunches, Written
<1>2. path # 0 /\ IsWhole(path) => Head(contents[path]) \in 1..MaxSaves
  BY LenProperties, ElementOfSeq, HeadTailProperties, EmptySeq DEF CacheInv, CacheTypeOK, IsWhole
<1>3. CacheTypeOK'
  BY <1>1, <1>2 DEF CacheInv, CacheTypeOK, Relaunches
<1>4. ASSUME frontend = "mobile" PROVE MobileInv'
  <2>1. MobileInv
    BY <1>4 DEF CacheInv
  <2>2. snapshot' = Written
    BY <2>1 DEF Relaunches, Written, MobileInv
  <2> QED
    BY <1>1, <2>1, <2>2 DEF MobileInv, OneWriter, WritesBeside, SavedInOrder, NewestIsInMemory, IsWhole
<1> QED
  BY <1>1, <1>3, <1>4 DEF CacheInv

LEMMA CacheInvNext == CacheInv /\ [CacheNext]_cacheVars => CacheInv'
<1>1. CacheInv /\ UNCHANGED cacheVars => CacheInv'
  BY DEF CacheInv, cacheVars, CacheTypeOK, MobileInv, OneWriter, WritesBeside, SavedInOrder,
         NewestIsInMemory, Written, IsWhole
<1> QED
  BY <1>1, SaveKeepsCache, TakeKeepsCache, OpenKeepsCache, WriteKeepsCache, RenameKeepsCache,
     ClearKeepsCache, RelaunchKeepsCache DEF CacheNext

LEMMA CacheInvHolds == CacheSpec => []CacheInv
BY CacheInvInit, CacheInvNext, PTL DEF CacheSpec

LEMMA CacheInvShows == CacheInv => ArchiveIsCurrent
<1> SUFFICES ASSUME CacheInv, frontend = "mobile"
             PROVE  LET coming == {queue[i] : i \in DOMAIN queue} \cup {w.snapshot : w \in writers}
                    IN \/ Written = snapshot /\ coming = {}
                       \/ snapshot \in coming /\ \A n \in coming : Written < n
  BY DEF ArchiveIsCurrent, CacheInv, MobileInv
<1> DEFINE coming == {queue[i] : i \in DOMAIN queue} \cup {w.snapshot : w \in writers}
<1>1. MobileInv
  BY DEF CacheInv
<1>2. \A n \in coming : Written < n
  BY <1>1 DEF MobileInv, SavedInOrder
<1>3. queue # <<>> => Len(queue) \in DOMAIN queue
  BY EmptySeq, LenProperties DEF CacheInv, CacheTypeOK
<1>4. CASE queue # <<>>
  BY <1>1, <1>2, <1>3, <1>4 DEF MobileInv, NewestIsInMemory
<1>5. CASE queue = <<>> /\ writers # {}
  BY <1>1, <1>2, <1>5 DEF MobileInv, NewestIsInMemory
<1>6. CASE queue = <<>> /\ writers = {}
  BY <1>1, <1>6 DEF MobileInv, NewestIsInMemory
<1> QED
  BY <1>4, <1>5, <1>6

(* On the phone the cache file is a whole snapshot whenever the app may     *)
(* end, and every newer one is still on its way to it in the order it was   *)
(* saved (SessionCacheStore::save_blocking, record_history, CacheWriter).   *)
THEOREM ArchiveCorrect == CacheSpec => []ArchiveIsCurrent
BY CacheInvHolds, CacheInvShows, PTL

(* The core's cache, the writes on their way and the file have their types   *)
(* (session_cache.rs).                                                      *)
THEOREM CacheTypeCorrect == CacheSpec => []CacheTypeOK
<1>1. CacheInv => CacheTypeOK
  BY DEF CacheInv
<1> QED
  BY <1>1, CacheInvHolds, PTL

-----------------------------------------------------------------------------
(* The local server.                                                        *)

(* What a restart has done of its work, and left to do: see StageInv.       *)
Restarting(t) == calls[t].do = "restart" /\ calls[t].alone

(* A call that only stops: the user's, or that of an app about to end.      *)
Aside(call) == call = Idle \/ call.do \in {"stop", "quit"}

NobodyElse(t) == \A u \in Task \ {t} : Aside(calls[u])

InDirectory(of, dir) == \A p \in Living(of) : procs[p].dir = dir

ChildLives == child # 0 /\ procs[child].at \in {"starting", "serving"}

(* What a stop beside the restart has killed it may let go of: the restart  *)
(* need not kill it again.                                                  *)
NoneLetGo == \A u \in Task : Aside(calls[u]) /\ calls[u].at = "drop" => ~ChildLives

StageInv(t) == LET call == calls[t] IN
  /\ call.at \in {"stop", "take", "kill"} =>
       NoneLetGo /\ Living(call.of) \subseteq {child} \cup Dying(call.of)
  /\ call.at \in {"drop", "forget", "quiet"} => Living(call.of) \subseteq Dying(call.of)
  /\ call.at \in {"forget", "quiet"} => child = 0
  /\ call.ours /\ call.at \in {"ask", "check"} => child = 0
  /\ call.ours /\ call.at \in {"ask", "check", "spawn"} => Living(call.of) = {}
  /\ call.ours /\ call.at \in {"names", "places", "poll", "reap"} =>
       InDirectory(call.of, StartsIn(call))

RestartInv(t) == Restarting(t) => NobodyElse(t) /\ StageInv(t)

StopStage == {"take", "kill", "drop", "forget"}

CallStage == StopStage \cup {"stop", "quiet", "ask", "check", "spawn", "names", "places", "poll", "reap"}

NamesItsServer(t) ==
  calls[t] # Idle =>
    IF Aside(calls[t]) THEN calls[t].at \in StopStage
    ELSE calls[t].of \in Server /\ calls[t].do \in {"ensure", "restart"}

ServerInv == ServerTypeOK /\ \A t \in Task : NamesItsServer(t) /\ RestartInv(t)

CallType == [do : {"none", "ensure", "restart", "stop", "quit"}, of : Server \cup {"none"},
             dir : Dir \cup {AppDir}, ours : BOOLEAN, alone : BOOLEAN,
             at : CallStage \cup {"idle"}]

ProcType == [of : Server \cup {"none"}, dir : Dir \cup {AppDir},
             at : {"gone", "starting", "serving", "dying", "exited"}]

(* The type invariant, by its parts, before a step and after it.            *)
LEMMA ServerTypes ==
  LET parts == /\ child \in Process \cup {0} /\ server \in Server \cup {"none"}
               /\ child # 0 => procs[child].at # "gone"
               /\ startedIn \in Dir \cup {AppDir}
               /\ procs \in [Process -> ProcType] /\ calls \in [Task -> CallType]
               /\ kind \in Server /\ workspace \in Dir \cup {AppDir}
               /\ online \in BOOLEAN /\ chances \in [Chance -> Nat]
  IN (ServerTypeOK <=> parts) /\ (ServerTypeOK' <=> parts')
<1>1. CallStage \cup {"idle"} = {"idle", "stop", "take", "kill", "drop", "forget", "quiet", "ask",
                                 "check", "spawn", "names", "places", "poll", "reap"}
  BY DEF CallStage, StopStage
<1> QED
  BY <1>1 DEF ServerTypeOK, ProcType, CallType

LEMMA IdleIs ==
  /\ Idle \in CallType /\ Idle.do = "none" /\ Idle.at = "idle" /\ Idle.ours = FALSE
  /\ Idle.alone = FALSE /\ Idle.of = "none"
  /\ [Idle EXCEPT !.alone = FALSE] = Idle
  /\ Gone \in ProcType /\ Gone.at = "gone" /\ Gone.of = "none"
<1>1. /\ Idle \in CallType /\ Idle.do = "none" /\ Idle.at = "idle" /\ Idle.ours = FALSE
      /\ Idle.alone = FALSE /\ Idle.of = "none"
  BY DEF Idle, CallType
<1>2. [Idle EXCEPT !.alone = FALSE] = Idle
  BY <1>1 DEF CallType
<1>3. Gone \in ProcType /\ Gone.at = "gone" /\ Gone.of = "none"
  BY DEF Gone, ProcType
<1> QED
  BY <1>1, <1>2, <1>3

LEMMA ServerInvInit == ServerInit => ServerInv
<1> SUFFICES ASSUME ServerInit PROVE ServerInv
  OBVIOUS
<1>1. PICK plan \in ServerPlans : kind = plan.kind /\ chances = plan.budget
  BY DEF ServerInit
<1>2. kind \in Server /\ chances \in [Chance -> Nat]
  BY <1>1, ServerAssumption
<1>3. procs \in [Process -> ProcType] /\ calls \in [Task -> CallType]
  BY IdleIs DEF ServerInit
<1>4. ServerTypeOK
  BY <1>2, <1>3, ServerTypes DEF ServerInit
<1>5. \A t \in Task : calls[t] = Idle /\ calls[t].do = "none"
  BY IdleIs DEF ServerInit
<1> QED
  BY <1>4, <1>5 DEF ServerInv, RestartInv, Restarting, NamesItsServer

-----------------------------------------------------------------------------
(* Steps beside a restart: of the machine, of the user, of a call that only *)
(* stops.  No process of its server appears, comes back from dying or moves *)
(* to another directory, and the child is let go of by a stop that has      *)
(* killed the one it found.                                                 *)
Wanes(p) ==
  \/ procs'[p] = procs[p]
  \/ procs'[p].at \in {"gone", "exited"}
  \/ /\ procs'[p].of = procs[p].of /\ procs'[p].dir = procs[p].dir
     /\ \/ procs[p].at = "starting" /\ procs'[p].at = "serving"
        \/ procs[p].at = "serving" /\ procs'[p].at = "dying"

StepsAside(t) ==
  /\ Aside(calls[t]) /\ Aside(calls'[t])
  /\ calls'[t].at = "drop" => ~ChildLives'

Beside ==
  /\ ServerTypeOK' /\ \A t \in Task : NamesItsServer(t)'
  /\ \A p \in Process : Wanes(p)
  /\ child' \in {child, 0}
  /\ child' # child => \E u \in Task : Aside(calls[u]) /\ calls[u].at = "drop"
  /\ \A t \in Task : calls'[t] = calls[t] \/ StepsAside(t)

LEMMA WanesIs ==
  ASSUME ServerTypeOK, \A p \in Process : Wanes(p)
  PROVE  \A of \in Server :
           /\ Living(of)' \subseteq Living(of)
           /\ Dying(of) \cap Living(of)' \subseteq Dying(of)'
           /\ \A p \in Living(of)' : procs'[p].dir = procs[p].dir
BY DEF Wanes, Living, Dying

LEMMA BesideKeeps ==
  ASSUME ServerInv, Beside
  PROVE  ServerInv'
<1> SUFFICES ASSUME NEW t \in Task, Restarting(t)'
             PROVE  NobodyElse(t)' /\ StageInv(t)'
  BY DEF Beside, ServerInv, RestartInv
<1>1. calls'[t] = calls[t] /\ calls[t].of \in Server
  <2>1. ~Aside(calls'[t]) /\ calls'[t] # Idle
    BY IdleIs DEF Restarting, Aside
  <2>2. calls'[t] = calls[t]
    BY <2>1 DEF Beside, StepsAside
  <2> QED
    BY <2>1, <2>2 DEF ServerInv, NamesItsServer
<1>2. NobodyElse(t) /\ StageInv(t)
  BY <1>1 DEF ServerInv, RestartInv, Restarting
<1>3. NobodyElse(t)'
  BY <1>2 DEF NobodyElse, Beside, StepsAside
<1>4. PICK of \in Server : of = calls[t].of /\ of = calls'[t].of
  BY <1>1
<1>5. /\ Living(of)' \subseteq Living(of)
      /\ Dying(of) \cap Living(of)' \subseteq Dying(of)'
      /\ \A p \in Living(of)' : procs'[p].dir = procs[p].dir
  BY WanesIs DEF Beside, ServerInv
<1>6. child' \in {child, 0}
  BY DEF Beside
<1>7. InDirectory(of, StartsIn(calls[t])) => InDirectory(of, StartsIn(calls[t]))'
  BY <1>1, <1>5 DEF InDirectory, StartsIn
<1>8. ASSUME NoneLetGo
      PROVE  NoneLetGo'
  <2>1. SUFFICES ASSUME NEW u \in Task, Aside(calls'[u]), calls'[u].at = "drop", ChildLives'
                 PROVE  FALSE
    BY DEF NoneLetGo, Aside
  <2>2. calls'[u] = calls[u]
    BY <2>1 DEF Beside, StepsAside
  <2>3. ~ChildLives
    BY <1>8, <2>1, <2>2 DEF NoneLetGo
  <2>4. child' = child /\ child \in Process
    BY <2>1, <1>6, ServerTypes DEF ChildLives, ServerInv
  <2>5. procs[child].at \in {"starting", "serving"}
    <3>1. Wanes(child) /\ procs'[child].at \in {"starting", "serving"}
      BY <2>1, <2>4 DEF Beside, ChildLives
    <3> QED
      BY <3>1 DEF Wanes
  <2> QED
    BY <2>1, <2>3, <2>4, <2>5 DEF ChildLives
<1>9. ASSUME NoneLetGo, Living(of) \subseteq {child} \cup Dying(of)
      PROVE  Living(of)' \subseteq {child'} \cup Dying(of)'
  <2>1. SUFFICES ASSUME NEW q \in Living(of)', q \notin Dying(of)
                 PROVE  q = child'
    BY <1>5
  <2>2. q = child /\ procs[q].at \in {"starting", "serving"} /\ child \in Process
    BY <1>5, <1>9, <2>1 DEF Living, Dying
  <2>3. child # 0
    BY <2>2, ServerAssumption
  <2>4. ChildLives
    BY <2>2, <2>3 DEF ChildLives
  <2>5. child' = child
    BY <1>9, <2>4 DEF Beside, NoneLetGo
  <2> QED
    BY <2>2, <2>5
<1>10. /\ calls[t].at \in {"stop", "take", "kill"} =>
            NoneLetGo' /\ Living(of)' \subseteq {child'} \cup Dying(of)'
       /\ calls[t].at \in {"drop", "forget", "quiet"} => Living(of)' \subseteq Dying(of)'
  BY <1>2, <1>5, <1>8, <1>9, <1>4 DEF StageInv
<1>11. /\ calls[t].at \in {"forget", "quiet"} => child' = 0
       /\ calls[t].ours /\ calls[t].at \in {"ask", "check"} => child' = 0
       /\ calls[t].ours /\ calls[t].at \in {"ask", "check", "spawn"} => Living(of)' = {}
  BY <1>2, <1>5, <1>6, <1>4 DEF StageInv
<1>12. calls[t].ours /\ calls[t].at \in {"names", "places", "poll", "reap"} =>
          InDirectory(of, StartsIn(calls[t]))'
  BY <1>2, <1>7, <1>4 DEF StageInv
<1> QED
  BY <1>1, <1>3, <1>4, <1>10, <1>11, <1>12 DEF StageInv, InDirectory

LEMMA ExitedIs ==
  ASSUME ServerTypeOK, NEW p \in Process
  PROVE  /\ Exited(p) \in ProcType
         /\ Exited(p).at \in {"exited", "gone"}
         /\ p = child => Exited(p).at = "exited"
<1>1. procs[p] \in ProcType
  BY ServerTypes
<1> QED
  BY <1>1, IdleIs DEF Exited, ProcType

(* A process ends, begins to answer, or is killed: the calls stay as they   *)
(* were, and a child stays one.                                             *)
LEMMA OneProcessWanes ==
  ASSUME ServerInv, NEW p \in Process, NEW now \in ProcType,
         procs' = [procs EXCEPT ![p] = now],
         \/ now.at \in {"exited", "gone"} /\ (p = child => now.at = "exited")
         \/ procs[p].at = "starting" /\ now = [procs[p] EXCEPT !.at = "serving"],
         UNCHANGED <<child, server, startedIn, calls, kind, workspace>>,
         online' \in BOOLEAN, chances' \in [Chance -> Nat]
  PROVE  ServerInv'
<1>1. ServerTypeOK /\ procs \in [Process -> ProcType] /\ procs[p] \in ProcType
  BY ServerTypes DEF ServerInv
<1>2. \/ now.at \in {"exited", "gone"} /\ (p = child => now.at = "exited")
      \/ /\ procs[p].at = "starting" /\ now.at = "serving"
         /\ now.of = procs[p].of /\ now.dir = procs[p].dir
  BY <1>1 DEF ProcType
<1>3. /\ procs' \in [Process -> ProcType] /\ procs'[p] = now
      /\ \A q \in Process \ {p} : procs'[q] = procs[q]
  BY <1>1
<1>4. child # 0 => procs'[child].at # "gone"
  BY <1>1, <1>2, <1>3, ServerTypes
<1>5. ServerTypeOK'
  BY <1>1, <1>3, <1>4, ServerTypes
<1>6. ASSUME NEW q \in Process
      PROVE  Wanes(q)
  BY <1>2, <1>3 DEF Wanes
<1>7. \A t \in Task : NamesItsServer(t)'
  BY DEF ServerInv, NamesItsServer
<1>8. Beside
  BY <1>5, <1>6, <1>7 DEF Beside
<1> QED
  BY <1>8, BesideKeeps

LEMMA MayIs ==
  ASSUME chances \in [Chance -> Nat], NEW c \in Chance, May(c)
  PROVE  chances' \in [Chance -> Nat]
BY DEF May

LEMMA MachineKeeps ==
  ASSUME ServerInv, NEW p \in Process, Serves(p) \/ Ends(p) \/ Dies(p)
  PROVE  ServerInv'
<1>1. ServerTypeOK /\ procs[p] \in ProcType /\ online \in BOOLEAN /\ chances \in [Chance -> Nat]
  BY ServerTypes DEF ServerInv
<1>2. CASE Serves(p)
  <2>1. PICK now : now = IF IsReachable(procs[p].of) THEN Exited(p) ELSE [procs[p] EXCEPT !.at = "serving"]
    OBVIOUS
  <2>2. now \in ProcType
    BY <1>1, <2>1, ExitedIs DEF ProcType
  <2>3. \/ now.at \in {"exited", "gone"} /\ (p = child => now.at = "exited")
        \/ procs[p].at = "starting" /\ now = [procs[p] EXCEPT !.at = "serving"]
    BY <1>1, <1>2, <2>1, ExitedIs DEF Serves
  <2>4. /\ procs' = [procs EXCEPT ![p] = now]
        /\ UNCHANGED <<child, server, startedIn, calls, kind, workspace, online, chances>>
    BY <1>2, <2>1 DEF Serves, managerVars, userVars
  <2> QED
    BY <1>1, <2>2, <2>3, <2>4, OneProcessWanes
<1>3. CASE Ends(p)
  BY <1>1, <1>3, ExitedIs, OneProcessWanes DEF Ends, managerVars, userVars
<1>4. CASE Dies(p)
  <2>1. chances' \in [Chance -> Nat] /\ online' \in BOOLEAN
    BY <1>1, <1>4, MayIs DEF Dies, Chance
  <2> QED
    BY <1>1, <1>4, <2>1, ExitedIs, OneProcessWanes DEF Dies, managerVars, userVars
<1> QED
  BY <1>2, <1>3, <1>4

(* What a stop does in each of its regions, whoever it is for.              *)
LEMMA StopTakesDoes ==
  ASSUME ServerTypeOK, NEW t \in Task, StopTakes(t), calls' \in [Task -> CallType]
  PROVE  /\ ServerTypeOK' /\ \A p \in Process : Wanes(p)
         /\ UNCHANGED <<child, procs>>
<1>1. UNCHANGED <<child, startedIn, procs, kind, workspace, online, chances>> /\ server' = "none"
  BY DEF StopTakes, userVars
<1> QED
  BY <1>1, ServerTypes DEF Wanes

LEMMA StopKillsDoes ==
  ASSUME ServerTypeOK, NEW t \in Task, StopKills(t), calls' \in [Task -> CallType]
  PROVE  /\ ServerTypeOK' /\ \A p \in Process : Wanes(p)
         /\ child' = child /\ ~ChildLives'
<1>1. /\ child \in Process \cup {0} /\ procs \in [Process -> ProcType] /\ online \in BOOLEAN
      /\ child # 0 => procs[child].at # "gone"
  BY ServerTypes
<1>2. UNCHANGED <<child, server, startedIn, kind, workspace, chances>> /\ online' \in BOOLEAN
  BY <1>1 DEF StopKills, managerVars, userVars
<1>3. ASSUME NEW p \in Process
      PROVE  /\ procs'[p] \in ProcType /\ Wanes(p)
             /\ p = child => procs'[p].at \notin {"gone", "starting", "serving"}
  <2>1. procs[p] \in ProcType
    BY <1>1
  <2>2. procs'[p] = IF p = child /\ procs[p].at \in {"starting", "serving"} THEN Killed(p) ELSE procs[p]
    BY DEF StopKills
  <2>3. ASSUME procs[p].at \in {"starting", "serving"}
        PROVE  /\ Killed(p) \in ProcType /\ Killed(p).of = procs[p].of /\ Killed(p).dir = procs[p].dir
               /\ Killed(p).at = IF procs[p].at = "serving" THEN "dying" ELSE "exited"
    BY <2>1, <2>3 DEF Killed, ProcType
  <2>4. procs'[p] \in ProcType
    BY <2>1, <2>2, <2>3
  <2>5. Wanes(p)
    BY <2>2, <2>3 DEF Wanes
  <2>6. p = child => procs'[p].at \notin {"gone", "starting", "serving"}
    <3>1. p = child => child # 0
      BY ServerAssumption
    <3> QED
      BY <1>1, <2>2, <2>3, <3>1
  <2> QED
    BY <2>4, <2>5, <2>6
<1>4. procs' \in [Process -> ProcType]
  BY <1>3 DEF StopKills
<1>5. ServerTypeOK' /\ ~ChildLives'
  BY <1>1, <1>2, <1>3, <1>4, ServerTypes DEF ChildLives
<1> QED
  BY <1>2, <1>3, <1>5

(* The handle is let go of: see LetGo.                                      *)
LEMMA LetGoIs ==
  ASSUME ServerTypeOK, NEW p \in Process
  PROVE  LetGo[p] \in ProcType /\ (LetGo[p] = procs[p] \/ LetGo[p] = Gone)
<1>1. procs[p] \in ProcType
  BY ServerTypes
<1> QED
  BY <1>1, IdleIs DEF LetGo

LEMMA StopDropsDoes ==
  ASSUME ServerTypeOK, NEW t \in Task, StopDrops(t), calls' \in [Task -> CallType]
  PROVE  /\ ServerTypeOK' /\ \A p \in Process : Wanes(p)
         /\ child' = 0
<1>1. /\ UNCHANGED <<server, startedIn, kind, workspace, online, chances>>
      /\ child' = 0 /\ procs' = LetGo
  BY DEF StopDrops, userVars
<1>2. procs' \in [Process -> ProcType]
  BY <1>1, LetGoIs DEF LetGo
<1>3. ServerTypeOK'
  BY <1>1, <1>2, ServerTypes
<1>4. ASSUME NEW p \in Process
      PROVE  Wanes(p)
  BY <1>1, LetGoIs, IdleIs DEF Wanes
<1> QED
  BY <1>1, <1>3, <1>4

LEMMA AppEndsKeeps ==
  ASSUME ServerInv, AppEnds, UNCHANGED userVars, chances' \in [Chance -> Nat]
  PROVE  ServerInv'
<1>1. ServerTypeOK /\ procs \in [Process -> ProcType]
  BY ServerTypes DEF ServerInv
<1>2. procs' \in [Process -> ProcType]
  BY <1>1, IdleIs DEF AppEnds
<1>3. calls' \in [Task -> CallType] /\ \A t \in Task : calls'[t] = Idle
  BY IdleIs DEF AppEnds
<1>4. ServerTypeOK'
  BY <1>1, <1>2, <1>3, ServerTypes DEF AppEnds, userVars
<1> QED
  BY <1>3, <1>4, IdleIs DEF ServerInv, NamesItsServer, RestartInv, Restarting

(* A step that changes one call.                                            *)
LEMMA GoesIs ==
  ASSUME ServerInv, NEW t \in Task, calls[t].at # "idle", NEW at \in CallStage, Goes(t, at)
  PROVE  /\ calls' \in [Task -> CallType]
         /\ calls[t] # Idle
         /\ \A u \in Task \ {t} : calls'[u] = calls[u]
         /\ calls'[t].do = calls[t].do /\ calls'[t].alone = calls[t].alone
         /\ calls'[t].of = calls[t].of /\ calls'[t].dir = calls[t].dir
         /\ calls'[t].ours = calls[t].ours /\ calls'[t].at = at
<1>1. calls \in [Task -> CallType] /\ calls[t] \in CallType
  BY ServerTypes DEF ServerInv
<1> DEFINE c == [calls[t] EXCEPT !.at = at]
<1>2. /\ c \in CallType
      /\ c.do = calls[t].do /\ c.alone = calls[t].alone /\ c.of = calls[t].of
      /\ c.dir = calls[t].dir /\ c.ours = calls[t].ours /\ c.at = at
  BY <1>1 DEF CallType
<1>3. calls' = [calls EXCEPT ![t] = c]
  BY <1>1 DEF Goes
<1>4. calls[t] # Idle
  BY IdleIs
<1> HIDE DEF c
<1>5. calls' \in [Task -> CallType] /\ calls'[t] = c /\ \A u \in Task \ {t} : calls'[u] = calls[u]
  BY <1>1, <1>2, <1>3
<1> QED
  BY <1>2, <1>4, <1>5

LEMMA EndsIs ==
  ASSUME ServerInv, NEW t \in Task, calls[t].at # "idle", calls' = [calls EXCEPT ![t] = Idle]
  PROVE  /\ calls' \in [Task -> CallType] /\ calls[t] # Idle /\ calls'[t] = Idle
         /\ \A u \in Task \ {t} : calls'[u] = calls[u]
<1>1. calls \in [Task -> CallType]
  BY ServerTypes DEF ServerInv
<1> QED
  BY <1>1, IdleIs

(* The steps of a call that only stops.                                     *)
LEMMA AsideKeeps ==
  ASSUME ServerInv, NEW t \in Task, Aside(calls[t]),
         StopTakes(t) \/ StopKills(t) \/ StopDrops(t) \/ StopForgets(t)
  PROVE  ServerInv'
<1>1. ServerTypeOK /\ calls[t].at # "idle" /\ chances \in [Chance -> Nat]
  BY ServerTypes DEF ServerInv, StopTakes, StopKills, StopDrops, StopForgets
<1>2. calls[t].do \in {"stop", "quit"}
  BY <1>1, IdleIs DEF Aside
<1>3. ASSUME NEW at \in StopStage, Goes(t, at)
      PROVE  /\ calls' \in [Task -> CallType] /\ calls'[t].at = at
             /\ \A u \in Task \ {t} : calls'[u] = calls[u]
             /\ Aside(calls'[t]) /\ \A u \in Task : NamesItsServer(u)'
  <2>1. at \in CallStage
    BY DEF CallStage
  <2>2. /\ calls' \in [Task -> CallType] /\ calls'[t].at = at /\ calls'[t].do = calls[t].do
        /\ \A u \in Task \ {t} : calls'[u] = calls[u]
    BY <1>1, <1>3, <2>1, GoesIs
  <2> QED
    BY <1>2, <1>3, <2>2 DEF Aside, NamesItsServer, ServerInv
<1>4. CASE StopTakes(t)
  <2>1. "kill" \in StopStage /\ Goes(t, "kill")
    BY <1>4 DEF StopTakes, StopStage
  <2>2. Beside
    BY <1>1, <1>3, <1>4, <2>1, StopTakesDoes DEF Beside, StepsAside
  <2> QED
    BY <2>2, BesideKeeps
<1>5. CASE StopKills(t)
  <2>1. "drop" \in StopStage /\ Goes(t, "drop")
    BY <1>5 DEF StopKills, StopStage
  <2>2. Beside
    BY <1>1, <1>3, <1>5, <2>1, StopKillsDoes DEF Beside, StepsAside
  <2> QED
    BY <2>2, BesideKeeps
<1>6. CASE StopDrops(t)
  <2>1. "forget" \in StopStage /\ Goes(t, "forget") /\ calls[t].at = "drop"
    BY <1>6 DEF StopDrops, StopStage
  <2>2. /\ ServerTypeOK' /\ \A p \in Process : Wanes(p)
        /\ child' = 0
    BY <1>1, <1>3, <1>6, <2>1, StopDropsDoes
  <2>3. Beside
    BY <1>1, <1>3, <2>1, <2>2 DEF Beside, StepsAside
  <2> QED
    BY <2>3, BesideKeeps
<1>7. CASE StopForgets(t)
  <2>1. CASE AppEnds
    BY <1>1, <1>7, <2>1, AppEndsKeeps DEF StopForgets
  <2>2. CASE ~AppEnds
    <3>1. /\ calls' = [calls EXCEPT ![t] = Idle] /\ startedIn' = AppDir
          /\ UNCHANGED <<child, server, procs, online, kind, workspace, chances>>
      BY <1>2, <1>7, <2>2 DEF StopForgets, userVars
    <3>2. /\ calls' \in [Task -> CallType] /\ calls'[t] = Idle
          /\ \A u \in Task \ {t} : calls'[u] = calls[u]
      BY <1>1, <3>1, EndsIs
    <3>3. ServerTypeOK'
      BY <1>1, <3>1, <3>2, ServerTypes
    <3>4. \A p \in Process : Wanes(p)
      BY <3>1 DEF Wanes
    <3>5. \A u \in Task : NamesItsServer(u)'
      BY <3>2 DEF NamesItsServer, ServerInv
    <3>6. Beside
      BY <3>1, <3>2, <3>3, <3>4, <3>5, IdleIs DEF Beside, StepsAside, Aside
    <3> QED
      BY <3>6, BesideKeeps
  <2> QED
    BY <2>1, <2>2
<1> QED
  BY <1>4, <1>5, <1>6, <1>7

(* A call that only stops begins; the user goes to the other backend.       *)
LEMMA CommandsKeep ==
  ASSUME ServerInv, SwitchBackend \/ Crash \/ (\E t \in Task : StopManagedServer(t) \/ Quit(t))
  PROVE  ServerInv'
<1>1. ServerTypeOK /\ chances \in [Chance -> Nat] /\ calls \in [Task -> CallType]
  BY ServerTypes DEF ServerInv
<1>2. chances' \in [Chance -> Nat]
  BY <1>1, MayIs DEF SwitchBackend, Crash, StopManagedServer, Quit, Chance
<1>3. CASE SwitchBackend
  <2>1. /\ UNCHANGED <<child, server, startedIn, procs, calls, workspace>>
        /\ kind' \in Server /\ online' = FALSE
    BY <1>3 DEF SwitchBackend, managerVars
  <2>2. ServerTypeOK' /\ (\A p \in Process : Wanes(p)) /\ \A t \in Task : NamesItsServer(t)'
    BY <1>1, <1>2, <2>1, ServerTypes DEF Wanes, ServerInv, NamesItsServer
  <2>3. Beside
    BY <2>1, <2>2 DEF Beside
  <2> QED
    BY <2>3, BesideKeeps
<1>4. CASE AppEnds /\ UNCHANGED userVars
  BY <1>2, <1>4, AppEndsKeeps
<1>5. ASSUME NEW t \in Task, NEW what \in {"stop", "quit"}, Stops(t, what), UNCHANGED userVars
      PROVE  ServerInv'
  <2> DEFINE new == [Idle EXCEPT !.do = what, !.at = "take"]
  <2>1. new \in CallType /\ new.do = what /\ new.at = "take"
    BY IdleIs DEF CallType, CallStage, StopStage
  <2>2. calls' = [calls EXCEPT ![t] = new] /\ calls[t] = Idle
    BY <1>5 DEF Stops
  <2> HIDE DEF new
  <2>3. /\ calls' \in [Task -> CallType] /\ calls'[t] = new
        /\ \A u \in Task \ {t} : calls'[u] = calls[u]
    BY <1>1, <2>1, <2>2
  <2>4. UNCHANGED <<child, server, startedIn, procs, online, kind, workspace>>
    BY <1>5 DEF Stops, managerVars, userVars
  <2>5. ServerTypeOK' /\ \A p \in Process : Wanes(p)
    BY <1>1, <1>2, <2>3, <2>4, ServerTypes DEF Wanes
  <2>6. Aside(calls[t]) /\ Aside(calls'[t]) /\ calls'[t].at = "take"
    BY <2>1, <2>2, <2>3 DEF Aside
  <2>7. \A u \in Task : NamesItsServer(u)'
    BY <2>3, <2>6 DEF ServerInv, NamesItsServer, StopStage
  <2>8. Beside
    BY <2>3, <2>4, <2>5, <2>6, <2>7 DEF Beside, StepsAside
  <2> QED
    BY <2>8, BesideKeeps
<1> QED
  BY <1>3, <1>4, <1>5 DEF Crash, StopManagedServer, Quit

-----------------------------------------------------------------------------
(* The steps of one call: with a restart that is alone there is no other    *)
(* but one that only stops.                                                 *)
LEMMA CallMoves ==
  ASSUME ServerInv, ServerTypeOK', NEW t \in Task, ~Aside(calls[t]),
         \A u \in Task \ {t} : calls'[u] = calls[u],
         \/ calls'[t] = Idle
         \/ /\ calls'[t].do = calls[t].do /\ calls'[t].alone = calls[t].alone
            /\ calls'[t].of = calls[t].of
            /\ Restarting(t) /\ NobodyElse(t) /\ StageInv(t) => StageInv(t)'
  PROVE  ServerInv'
<1>1. calls[t].of \in Server /\ calls[t].do \in {"ensure", "restart"} /\ calls[t] # Idle
  BY DEF ServerInv, NamesItsServer, Aside
<1>2. RestartInv(t)' /\ NamesItsServer(t)'
  <2>1. CASE calls'[t] = Idle
    BY <2>1, IdleIs DEF RestartInv, Restarting, NamesItsServer
  <2>2. CASE /\ calls'[t].do = calls[t].do /\ calls'[t].alone = calls[t].alone
             /\ calls'[t].of = calls[t].of
             /\ Restarting(t) /\ NobodyElse(t) /\ StageInv(t) => StageInv(t)'
    <3>1. ~Aside(calls'[t])
      BY <1>1, <2>2, IdleIs DEF Aside
    <3> QED
      BY <1>1, <2>2, <3>1 DEF ServerInv, RestartInv, Restarting, NobodyElse, NamesItsServer
  <2> QED
    BY <2>1, <2>2
<1>3. ASSUME NEW u \in Task, u # t
      PROVE  RestartInv(u)' /\ NamesItsServer(u)'
  <2>1. ~Restarting(u)
    BY <1>3 DEF ServerInv, RestartInv, NobodyElse
  <2> QED
    BY <1>3, <2>1 DEF ServerInv, RestartInv, Restarting, NamesItsServer
<1> QED
  BY <1>2, <1>3 DEF ServerInv

(* A call that only stops is nowhere but in the regions of stop.            *)
LEMMA StagesAre ==
  ASSUME ServerInv, NEW t \in Task, calls[t].at \in CallStage \ StopStage
  PROVE  ~Aside(calls[t])
<1>1. calls[t] # Idle
  BY IdleIs DEF CallStage, StopStage
<1> QED
  BY <1>1 DEF ServerInv, NamesItsServer

(* A step that only takes the call further.                                 *)
LEMMA OnlyGoes ==
  ASSUME ServerInv, NEW t \in Task, ~Aside(calls[t]), calls[t].at # "idle",
         NEW at \in CallStage \ {"stop", "take", "kill", "drop"}, Goes(t, at),
         UNCHANGED <<child, procs>>,
         (calls' \in [Task -> CallType] => ServerTypeOK'),
         (Restarting(t) /\ StageInv(t) =>
           /\ at \in {"forget", "quiet"} => Living(calls[t].of) \subseteq Dying(calls[t].of) /\ child = 0
           /\ calls[t].ours /\ at \in {"ask", "check"} => child = 0
           /\ calls[t].ours /\ at \in {"ask", "check", "spawn"} => Living(calls[t].of) = {}
           /\ calls[t].ours /\ at \in {"names", "places", "poll", "reap"} =>
                InDirectory(calls[t].of, StartsIn(calls[t])))
  PROVE  ServerInv'
<1>1. /\ calls' \in [Task -> CallType]
      /\ \A u \in Task \ {t} : calls'[u] = calls[u]
      /\ calls'[t].do = calls[t].do /\ calls'[t].alone = calls[t].alone
      /\ calls'[t].of = calls[t].of /\ calls'[t].dir = calls[t].dir
      /\ calls'[t].ours = calls[t].ours /\ calls'[t].at = at
  BY GoesIs
<1>2. ASSUME Restarting(t), StageInv(t)
      PROVE  StageInv(t)'
  BY <1>1, <1>2 DEF StageInv, Living, Dying, InDirectory, StartsIn
<1> QED
  BY <1>1, <1>2, CallMoves

LEMMA RestartLooksKeeps ==
  ASSUME ServerInv, NEW t \in Task, RestartLooks(t)
  PROVE  ServerInv'
<1>1. /\ ServerTypeOK /\ calls \in [Task -> CallType] /\ calls[t].at = "stop"
      /\ UNCHANGED <<child, server, startedIn, procs, kind, workspace, online, chances>>
  BY ServerTypes DEF ServerInv, RestartLooks, managerVars, userVars
<1>2. ~Aside(calls[t])
  BY <1>1, StagesAre DEF CallStage, StopStage
<1> DEFINE new == [calls[t] EXCEPT !.ours = IsManaging, !.at = "take"]
<1>3. /\ new \in CallType /\ new.do = calls[t].do /\ new.alone = calls[t].alone
      /\ new.of = calls[t].of /\ new.at = "take"
  BY <1>1 DEF CallType, CallStage, StopStage, IsManaging
<1>4. calls' = [calls EXCEPT ![t] = new]
  BY <1>1 DEF RestartLooks
<1> HIDE DEF new
<1>5. /\ calls' \in [Task -> CallType] /\ calls'[t] = new
      /\ \A u \in Task \ {t} : calls'[u] = calls[u]
  BY <1>1, <1>3, <1>4
<1>6. ServerTypeOK'
  BY <1>1, <1>5, ServerTypes
<1>7. ASSUME StageInv(t)
      PROVE  StageInv(t)'
  <2>1. NoneLetGo /\ Living(calls[t].of) \subseteq {child} \cup Dying(calls[t].of)
    BY <1>1, <1>7 DEF StageInv
  <2>2. ~Aside(calls'[t]) \/ calls'[t].at # "drop"
    BY <1>3, <1>5
  <2>3. NoneLetGo'
    BY <1>1, <1>5, <2>1, <2>2 DEF NoneLetGo, ChildLives
  <2> QED
    BY <1>1, <1>3, <1>5, <2>1, <2>3 DEF StageInv, Living, Dying
<1> QED
  BY <1>2, <1>3, <1>5, <1>6, <1>7, CallMoves

(* The regions of stop, for a restart.                                      *)
LEMMA RestartStopsKeeps ==
  ASSUME ServerInv, NEW t \in Task, ~Aside(calls[t]),
         StopTakes(t) \/ StopKills(t) \/ StopDrops(t) \/ StopForgets(t)
  PROVE  ServerInv'
<1>1. ServerTypeOK /\ calls[t].at # "idle" /\ calls[t].of \in Server
  BY DEF ServerInv, NamesItsServer, Aside, StopTakes, StopKills, StopDrops, StopForgets
<1>2. ASSUME NEW at \in CallStage, Goes(t, at)
      PROVE  /\ calls' \in [Task -> CallType]
             /\ \A u \in Task \ {t} : calls'[u] = calls[u]
             /\ calls'[t].do = calls[t].do /\ calls'[t].alone = calls[t].alone
             /\ calls'[t].of = calls[t].of /\ calls'[t].ours = calls[t].ours /\ calls'[t].at = at
  BY <1>1, <1>2, GoesIs
<1>3. CASE StopTakes(t)
  <2>1. Goes(t, "kill") /\ calls[t].at = "take" /\ "kill" \in CallStage
    BY <1>3 DEF StopTakes, CallStage, StopStage
  <2>2. ServerTypeOK' /\ UNCHANGED <<child, procs>>
    BY <1>1, <1>2, <1>3, <2>1, StopTakesDoes
  <2>3. ASSUME StageInv(t)
        PROVE  StageInv(t)'
    <3>1. NoneLetGo /\ Living(calls[t].of) \subseteq {child} \cup Dying(calls[t].of)
      BY <2>1, <2>3 DEF StageInv
    <3>2. NoneLetGo'
      BY <1>2, <2>1, <2>2, <3>1 DEF NoneLetGo, ChildLives
    <3> QED
      BY <1>2, <2>1, <2>2, <3>1, <3>2 DEF StageInv, Living, Dying
  <2> QED
    BY <1>2, <2>1, <2>2, <2>3, CallMoves
<1>4. CASE StopKills(t)
  <2>1. Goes(t, "drop") /\ calls[t].at = "kill" /\ "drop" \in CallStage
    BY <1>4 DEF StopKills, CallStage, StopStage
  <2>2. ServerTypeOK' /\ (\A p \in Process : Wanes(p)) /\ child' = child /\ ~ChildLives'
    BY <1>1, <1>2, <1>4, <2>1, StopKillsDoes
  <2>3. ASSUME StageInv(t)
        PROVE  StageInv(t)'
    <3>1. PICK of \in Server : of = calls[t].of
      BY <1>1
    <3>2. Living(of) \subseteq {child} \cup Dying(of)
      BY <2>1, <2>3, <3>1 DEF StageInv
    <3>3. Living(of)' \subseteq Living(of) /\ Dying(of) \cap Living(of)' \subseteq Dying(of)'
      BY <1>1, <2>2, WanesIs
    <3>4. ASSUME NEW q \in Living(of)', q = child
          PROVE  q \in Dying(of)'
      <4>1. q \in Process /\ q # 0 /\ procs'[q].at \notin {"starting", "serving"}
        BY <2>2, <3>4, ServerAssumption DEF Living, ChildLives
      <4> QED
        BY <3>4, <4>1 DEF Living, Dying
    <3>5. Living(of)' \subseteq Dying(of)'
      BY <3>2, <3>3, <3>4
    <3> QED
      BY <1>2, <2>1, <3>1, <3>5 DEF StageInv
  <2> QED
    BY <1>2, <2>1, <2>2, <2>3, CallMoves
<1>5. CASE StopDrops(t)
  <2>1. Goes(t, "forget") /\ calls[t].at = "drop" /\ "forget" \in CallStage
    BY <1>5 DEF StopDrops, CallStage, StopStage
  <2>2. ServerTypeOK' /\ (\A p \in Process : Wanes(p)) /\ child' = 0
    BY <1>1, <1>2, <1>5, <2>1, StopDropsDoes
  <2>3. ASSUME StageInv(t)
        PROVE  StageInv(t)'
    <3>1. PICK of \in Server : of = calls[t].of
      BY <1>1
    <3>2. Living(of) \subseteq Dying(of)
      BY <2>1, <2>3, <3>1 DEF StageInv
    <3>3. Living(of)' \subseteq Living(of) /\ Dying(of) \cap Living(of)' \subseteq Dying(of)'
      BY <1>1, <2>2, WanesIs
    <3> QED
      BY <1>2, <2>1, <2>2, <3>1, <3>2, <3>3 DEF StageInv
  <2> QED
    BY <1>2, <2>1, <2>2, <2>3, CallMoves
<1>6. CASE StopForgets(t)
  <2>1. PICK at : at = IF calls[t].ours THEN "quiet" ELSE "ask"
    OBVIOUS
  <2>2. /\ Goes(t, at) /\ calls[t].at = "forget" /\ startedIn' = AppDir
        /\ UNCHANGED <<child, server, procs, online, kind, workspace, chances>>
    BY <1>6, <2>1 DEF StopForgets, Aside, userVars
  <2>3. at \in {"quiet", "ask"} /\ (calls[t].ours => at = "quiet")
    BY <2>1
  <2>4. calls' \in [Task -> CallType] => ServerTypeOK'
    BY <1>1, <2>2, ServerTypes
  <2>5. StageInv(t) => child = 0 /\ Living(calls[t].of) \subseteq Dying(calls[t].of)
    BY <2>2 DEF StageInv
  <2>6. at \in CallStage \ {"stop", "take", "kill", "drop"}
    BY <2>3 DEF CallStage, StopStage
  <2> QED
    BY <1>1, <2>2, <2>3, <2>4, <2>5, <2>6, OnlyGoes
<1> QED
  BY <1>3, <1>4, <1>5, <1>6

LEMMA WaitsAndChecksKeep ==
  ASSUME ServerInv, NEW t \in Task,
         RestartWaits(t) \/ NotReached(t) \/ StartChecks(t) \/ SpawnFails(t)
  PROVE  ServerInv'
<1>1. ServerTypeOK /\ chances \in [Chance -> Nat]
  BY ServerTypes DEF ServerInv
<1>2. ~Aside(calls[t]) /\ calls[t].at # "idle"
  <2>1. calls[t].at \in {"quiet", "ask", "check", "spawn"}
    BY DEF RestartWaits, NotReached, StartChecks, SpawnFails
  <2>2. calls[t].at \in CallStage \ StopStage
    BY <2>1 DEF CallStage, StopStage
  <2> QED
    BY <2>1, <2>2, StagesAre
<1>3. {"ask", "check", "spawn", "poll"} \subseteq CallStage \ {"stop", "take", "kill", "drop"}
  BY DEF CallStage, StopStage
<1>4. CASE RestartWaits(t)
  <2>1. Living(calls[t].of) \subseteq Dying(calls[t].of) => Living(calls[t].of) = {}
    BY <1>4 DEF RestartWaits, QuietOver, IsReachable, Living, Dying, Serving
  <2>2. calls[t].at = "quiet" /\ Goes(t, "ask")
        /\ UNCHANGED <<child, server, startedIn, procs, kind, workspace, online, chances>>
    BY <1>4 DEF RestartWaits, managerVars, userVars
  <2>3. calls' \in [Task -> CallType] => ServerTypeOK'
    BY <1>1, <2>2, ServerTypes
  <2>4. StageInv(t) => child = 0 /\ Living(calls[t].of) = {}
    BY <2>1, <2>2 DEF StageInv
  <2> QED
    BY <1>2, <1>3, <2>2, <2>3, <2>4, OnlyGoes
<1>5. CASE NotReached(t)
  <2>1. calls[t].at = "ask" /\ Goes(t, "check")
        /\ UNCHANGED <<child, server, startedIn, procs, kind, workspace, online, chances>>
    BY <1>5 DEF NotReached, managerVars, userVars
  <2>2. calls' \in [Task -> CallType] => ServerTypeOK'
    BY <1>1, <2>1, ServerTypes
  <2>3. StageInv(t) /\ calls[t].ours => child = 0 /\ Living(calls[t].of) = {}
    BY <2>1 DEF StageInv
  <2> QED
    BY <1>2, <1>3, <2>1, <2>2, <2>3, OnlyGoes
<1>6. CASE StartChecks(t)
  <2>1. PICK at : at = IF IsManaging THEN "poll" ELSE "spawn"
    OBVIOUS
  <2>2. calls[t].at = "check" /\ Goes(t, at)
        /\ UNCHANGED <<child, server, startedIn, procs, kind, workspace, online, chances>>
    BY <1>6, <2>1 DEF StartChecks, managerVars, userVars
  <2>3. calls' \in [Task -> CallType] => ServerTypeOK'
    BY <1>1, <2>2, ServerTypes
  <2>4. at \in {"poll", "spawn"} /\ (child = 0 => at = "spawn")
    BY <2>1 DEF IsManaging
  <2>5. StageInv(t) /\ calls[t].ours => child = 0 /\ Living(calls[t].of) = {}
    BY <2>2 DEF StageInv
  <2> QED
    BY <1>2, <1>3, <2>2, <2>3, <2>4, <2>5, OnlyGoes
<1>7. CASE SpawnFails(t)
  <2>1. calls[t].at = "spawn" /\ Goes(t, "poll") /\ chances' \in [Chance -> Nat]
        /\ UNCHANGED <<child, server, startedIn, procs, kind, workspace, online>>
    BY <1>1, <1>7, MayIs DEF SpawnFails, managerVars, userVars, Chance
  <2>2. calls' \in [Task -> CallType] => ServerTypeOK'
    BY <1>1, <2>1, ServerTypes
  <2>3. StageInv(t) /\ calls[t].ours => InDirectory(calls[t].of, StartsIn(calls[t]))
    BY <2>1 DEF StageInv, InDirectory
  <2> QED
    BY <1>2, <1>3, <2>1, <2>2, <2>3, OnlyGoes
<1> QED
  BY <1>4, <1>5, <1>6, <1>7

LEMMA NamesAndPlacesKeep ==
  ASSUME ServerInv, NEW t \in Task, StartNames(t) \/ StartPlaces(t)
  PROVE  ServerInv'
<1>1. ServerTypeOK /\ calls[t].at \in {"names", "places"}
  BY DEF ServerInv, StartNames, StartPlaces
<1>2. ~Aside(calls[t]) /\ calls[t].at # "idle"
  BY <1>1, StagesAre DEF CallStage, StopStage
<1>3. calls[t].of \in Server /\ StartsIn(calls[t]) \in Dir \cup {AppDir}
  <2>1. calls[t] \in CallType
    BY <1>1, ServerTypes
  <2> QED
    BY <1>2, <2>1 DEF ServerInv, NamesItsServer, Aside, StartsIn, CallType
<1>4. PICK at \in {"places", "poll"} :
        /\ Goes(t, at) /\ UNCHANGED <<child, procs, kind, workspace, online, chances>>
        /\ server' \in {server, calls[t].of} /\ startedIn' \in {startedIn, StartsIn(calls[t])}
  BY DEF StartNames, StartPlaces, userVars
<1>5. calls' \in [Task -> CallType] => ServerTypeOK'
  BY <1>1, <1>3, <1>4, ServerTypes
<1>6. StageInv(t) /\ calls[t].ours => InDirectory(calls[t].of, StartsIn(calls[t]))
  BY <1>1 DEF StageInv
<1>7. at \in CallStage \ {"stop", "take", "kill", "drop"}
  BY DEF CallStage, StopStage
<1> QED
  BY <1>2, <1>4, <1>5, <1>6, <1>7, OnlyGoes

LEMMA StartSpawnsKeeps ==
  ASSUME ServerInv, NEW t \in Task, StartSpawns(t)
  PROVE  ServerInv'
<1> DEFINE dir == StartsIn(calls[t])
           new == [of |-> calls[t].of, dir |-> dir, at |-> "starting"]
<1>1. PICK p \in Process :
        /\ calls[t].at = "spawn" /\ procs[p].at = "gone"
        /\ procs' = [LetGo EXCEPT ![p] = new]
        /\ child' = p /\ Goes(t, "names")
        /\ UNCHANGED <<server, startedIn, kind, workspace, online, chances>>
  BY DEF StartSpawns, userVars
<1>2. ServerTypeOK /\ calls[t] \in CallType
  BY ServerTypes DEF ServerInv
<1>3. ~Aside(calls[t])
  BY <1>1, StagesAre DEF CallStage, StopStage
<1>4. calls[t].of \in Server /\ calls[t].of # "none" /\ dir \in Dir \cup {AppDir}
  BY <1>2, <1>3 DEF ServerInv, NamesItsServer, Aside, Server, StartsIn, CallType
<1>5. /\ calls' \in [Task -> CallType]
      /\ \A u \in Task \ {t} : calls'[u] = calls[u]
      /\ calls'[t].do = calls[t].do /\ calls'[t].alone = calls[t].alone
      /\ calls'[t].of = calls[t].of /\ calls'[t].dir = calls[t].dir
      /\ calls'[t].ours = calls[t].ours /\ calls'[t].at = "names"
  BY <1>1, GoesIs DEF CallStage
<1>6. new \in ProcType /\ new.dir = dir /\ new.at = "starting"
  BY <1>4 DEF ProcType
<1> HIDE DEF new
<1>7. LetGo \in [Process -> ProcType]
  BY <1>2, LetGoIs DEF LetGo
<1>8. /\ procs' \in [Process -> ProcType] /\ procs'[p] = new
      /\ \A q \in Process \ {p} : procs'[q] = Gone \/ procs'[q] = procs[q]
  BY <1>1, <1>2, <1>6, <1>7, LetGoIs
<1>9. ServerTypeOK'
  BY <1>1, <1>2, <1>5, <1>6, <1>8, ServerTypes
<1>10. ASSUME StageInv(t)
       PROVE  StageInv(t)'
  <2>1. PICK of \in Server : of = calls[t].of
    BY <1>4
  <2>2. calls[t].ours => Living(of) = {}
    BY <1>1, <1>10, <2>1 DEF StageInv
  <2>3. calls[t].ours => Living(of)' \subseteq {p}
    BY <1>8, <2>2, IdleIs DEF Living
  <2>4. StartsIn(calls'[t]) = dir
    BY <1>5 DEF StartsIn
  <2>5. calls[t].ours => \A q \in Living(of)' : procs'[q].dir = StartsIn(calls'[t])
    BY <1>6, <1>8, <2>3, <2>4
  <2>6. calls'[t].of = of /\ calls'[t].at = "names" /\ calls'[t].ours = calls[t].ours
    BY <1>5, <2>1
  <2> QED
    BY <2>5, <2>6 DEF StageInv, InDirectory
<1> QED
  BY <1>3, <1>5, <1>9, <1>10, CallMoves

(* A call sees that its child exited: no process but that one changes.      *)
LEMMA PollSeesExitKeeps ==
  ASSUME ServerInv, NEW t \in Task, PollSeesExit(t)
  PROVE  ServerInv'
<1>1. /\ ServerTypeOK /\ calls[t].at = "poll" /\ Goes(t, "reap")
      /\ child' = 0 /\ server' = "none" /\ procs' = LetGo
      /\ UNCHANGED <<startedIn, kind, workspace, online, chances>>
  BY DEF ServerInv, PollSeesExit, TakeExitedChild, userVars
<1>2. ~Aside(calls[t])
  BY <1>1, StagesAre DEF CallStage, StopStage
<1>3. /\ calls' \in [Task -> CallType]
      /\ \A u \in Task \ {t} : calls'[u] = calls[u]
      /\ calls'[t].do = calls[t].do /\ calls'[t].alone = calls[t].alone
      /\ calls'[t].of = calls[t].of /\ calls'[t].dir = calls[t].dir
      /\ calls'[t].ours = calls[t].ours /\ calls'[t].at = "reap"
  BY <1>1, GoesIs DEF CallStage
<1>4. LetGo \in [Process -> ProcType]
  BY <1>1, LetGoIs DEF LetGo
<1>5. ServerTypeOK'
  BY <1>1, <1>3, <1>4, ServerTypes
<1>6. ASSUME StageInv(t)
      PROVE  StageInv(t)'
  <2>1. PICK of \in Server : of = calls[t].of
    BY <1>2 DEF ServerInv, NamesItsServer, Aside
  <2>2. \A q \in Process : procs'[q] = procs[q] \/ procs'[q] = Gone
    BY <1>1, LetGoIs
  <2>3. Living(of)' \subseteq Living(of) /\ \A q \in Living(of)' : procs'[q].dir = procs[q].dir
    BY <2>2, IdleIs DEF Living
  <2>4. calls[t].ours => \A q \in Living(of) : procs[q].dir = StartsIn(calls[t])
    BY <1>1, <1>6, <2>1 DEF StageInv, InDirectory
  <2>5. StartsIn(calls'[t]) = StartsIn(calls[t])
    BY <1>3 DEF StartsIn
  <2>6. calls[t].ours => \A q \in Living(of)' : procs'[q].dir = StartsIn(calls'[t])
    BY <2>3, <2>4, <2>5
  <2>7. calls'[t].of = of /\ calls'[t].at = "reap" /\ calls'[t].ours = calls[t].ours
    BY <1>3, <2>1
  <2> QED
    BY <2>6, <2>7 DEF StageInv, InDirectory
<1> QED
  BY <1>2, <1>3, <1>5, <1>6, CallMoves

LEMMA EndOfCallKeeps ==
  ASSUME ServerInv, NEW t \in Task, Reached(t) \/ PollGivesUp(t) \/ PollReaps(t)
  PROVE  ServerInv'
<1>1. ServerTypeOK /\ online \in BOOLEAN
  BY ServerTypes DEF ServerInv
<1>2. calls[t].at \in {"ask", "poll", "reap"}
  BY DEF Reached, PollGivesUp, PollReaps
<1>3. ~Aside(calls[t])
  BY <1>2, StagesAre DEF CallStage, StopStage
<1>4. PICK ok \in BOOLEAN : Returns(t, ok)
  BY DEF Reached, PollGivesUp, PollReaps
<1>5. /\ calls' \in [Task -> CallType] /\ calls'[t] = Idle
      /\ \A u \in Task \ {t} : calls'[u] = calls[u]
  BY <1>2, <1>4, EndsIs DEF Returns
<1>6. online' \in BOOLEAN
  BY <1>1, <1>4 DEF Returns
<1>7. /\ UNCHANGED <<child, server, procs, kind, workspace, chances>>
      /\ startedIn' \in {startedIn, AppDir}
  BY DEF Reached, PollGivesUp, PollReaps, managerVars, userVars
<1>8. ServerTypeOK'
  BY <1>1, <1>5, <1>6, <1>7, ServerTypes
<1> QED
  BY <1>3, <1>5, <1>8, CallMoves

-----------------------------------------------------------------------------
(* A call that begins leaves no restart alone beside it.                    *)
LEMMA BeginsIs ==
  ASSUME ServerInv, NEW t \in Task, NEW call \in CallType, call.of \in Server,
         call.do \in {"ensure", "restart"}, Begins(t, call),
         (call.do = "restart" /\ call.alone =>
           /\ \A u \in Task : calls[u] = Idle
           /\ call.at = "stop" /\ ~call.ours
           /\ Living(call.of)' \subseteq {child'})
  PROVE  /\ calls' \in [Task -> CallType]
         /\ \A u \in Task : NamesItsServer(u)' /\ RestartInv(u)'
<1>1. calls \in [Task -> CallType]
  BY ServerTypes DEF ServerInv
<1>2. ASSUME NEW u \in Task
      PROVE  calls'[u] = IF u = t THEN call ELSE [calls[u] EXCEPT !.alone = FALSE]
  BY DEF Begins
<1>3. ASSUME NEW u \in Task, u # t
      PROVE  /\ calls'[u] \in CallType /\ calls'[u].alone = FALSE
             /\ calls'[u].of = calls[u].of /\ calls'[u].do = calls[u].do /\ calls'[u].at = calls[u].at
             /\ calls[u] = Idle => calls'[u] = Idle
  <2>1. calls[u] \in CallType /\ calls'[u] = [calls[u] EXCEPT !.alone = FALSE]
    BY <1>1, <1>2, <1>3
  <2>2. /\ calls'[u] \in CallType /\ calls'[u].alone = FALSE
        /\ calls'[u].of = calls[u].of /\ calls'[u].do = calls[u].do /\ calls'[u].at = calls[u].at
    BY <2>1 DEF CallType
  <2> QED
    BY <2>1, <2>2, IdleIs
<1>4. calls'[t] = call /\ ~Aside(call)
  BY <1>2, IdleIs DEF Aside
<1>5. calls' \in [Task -> CallType]
  BY <1>3, <1>4 DEF Begins
<1>6. ASSUME NEW u \in Task
      PROVE  NamesItsServer(u)'
  <2>1. CASE u = t
    BY <1>4, <2>1 DEF NamesItsServer
  <2>2. CASE u # t
    BY <1>3, <2>2 DEF ServerInv, NamesItsServer, Aside
  <2> QED
    BY <2>1, <2>2
<1>7. ASSUME NEW u \in Task, u # t
      PROVE  RestartInv(u)'
  BY <1>3, <1>7 DEF RestartInv, Restarting
<1>8. RestartInv(t)'
  <2>1. SUFFICES ASSUME call.do = "restart", call.alone
                 PROVE  NobodyElse(t)' /\ StageInv(t)'
    BY <1>4 DEF RestartInv, Restarting
  <2>2. \A u \in Task \ {t} : calls'[u] = Idle
    BY <1>3, <2>1
  <2>3. call.at = "stop" /\ ~call.ours /\ Living(call.of)' \subseteq {child'}
    BY <2>1
  <2>4. NoneLetGo'
    BY <1>4, <2>2, <2>3, IdleIs DEF NoneLetGo
  <2>5. StageInv(t)'
    BY <1>4, <2>3, <2>4 DEF StageInv
  <2> QED
    BY <2>2, <2>5 DEF NobodyElse, Aside
<1> QED
  BY <1>5, <1>6, <1>7, <1>8

LEMMA ConnectEnsuresKeeps ==
  ASSUME ServerInv, NEW t \in Task, ConnectEnsures(t)
  PROVE  ServerInv'
<1> DEFINE call == [Idle EXCEPT !.do = "ensure", !.of = kind, !.dir = workspace, !.at = "ask"]
<1>1. ServerTypeOK
  BY DEF ServerInv
<1>2. /\ call \in CallType /\ call.of \in Server /\ call.do = "ensure"
  <2>1. kind \in Server /\ workspace \in Dir \cup {AppDir}
    BY <1>1, ServerTypes
  <2> QED
    BY <2>1, IdleIs DEF CallType, CallStage
<1>3. /\ Begins(t, call)
      /\ UNCHANGED <<child, server, startedIn, procs, kind, workspace, online, chances>>
  BY DEF ConnectEnsures, managerVars, userVars
<1> HIDE DEF call
<1>4. /\ calls' \in [Task -> CallType]
      /\ \A u \in Task : NamesItsServer(u)' /\ RestartInv(u)'
  BY <1>2, <1>3, BeginsIs
<1>5. ServerTypeOK'
  BY <1>1, <1>3, <1>4, ServerTypes
<1> QED
  BY <1>4, <1>5 DEF ServerInv

LEMMA ApplyWorkspaceKeeps ==
  ASSUME ServerInv, NEW t \in Task, ApplyWorkspace(t)
  PROVE  ServerInv'
<1> DEFINE busy == \E u \in Task : calls[u] # Idle
<1>1. PICK dir \in Dir, busyChat \in BOOLEAN :
        /\ May("workspace") /\ workspace' = dir
        /\ IF IsManaging /\ startedIn # dir /\ ~busyChat
             THEN Begins(t, [Idle EXCEPT !.do = "restart", !.of = kind, !.dir = dir, !.at = "stop",
                                         !.alone = ~busy /\ Living(kind) \subseteq {child}])
             ELSE UNCHANGED calls
        /\ UNCHANGED <<managerVars, procs, kind, online>>
  BY DEF ApplyWorkspace
<1>2. ServerTypeOK /\ UNCHANGED <<child, server, startedIn, procs, kind, online>>
  BY <1>1 DEF ServerInv, managerVars
<1>3. chances' \in [Chance -> Nat] /\ workspace' \in Dir \cup {AppDir}
  BY <1>1, <1>2, MayIs, ServerTypes DEF Chance
<1> DEFINE alone == ~busy /\ Living(kind) \subseteq {child}
           call == [Idle EXCEPT !.do = "restart", !.of = kind, !.dir = dir, !.at = "stop",
                                !.alone = alone]
<1>4. CASE Begins(t, call)
  <2>1. kind \in Server
    BY <1>2, ServerTypes
  <2>2. alone \in BOOLEAN
    OBVIOUS
  <2>3. alone => (\A u \in Task : calls[u] = Idle) /\ Living(kind)' \subseteq {child'}
    BY <1>2 DEF Living
  <2> HIDE DEF alone
  <2>4. /\ call \in CallType /\ call.of = kind /\ kind \in Server /\ call.do = "restart"
        /\ call.at = "stop" /\ ~call.ours /\ call.alone = alone
    BY <2>1, <2>2, IdleIs DEF CallType, CallStage
  <2> HIDE DEF call
  <2>5. PICK new \in CallType : new = call
    BY <2>4
  <2>6. new.alone => Living(new.of)' \subseteq {child'}
    BY <1>2, <2>3, <2>4, <2>5 DEF Living
  <2>7. /\ calls' \in [Task -> CallType]
        /\ \A u \in Task : NamesItsServer(u)' /\ RestartInv(u)'
    BY <1>2, <1>4, <2>3, <2>4, <2>5, <2>6, BeginsIs
  <2>8. ServerTypeOK'
    BY <1>2, <1>3, <2>7, ServerTypes
  <2> QED
    BY <2>7, <2>8 DEF ServerInv
<1>5. CASE UNCHANGED calls
  <2>1. ServerTypeOK'
    BY <1>2, <1>3, <1>5, ServerTypes
  <2>2. (\A p \in Process : Wanes(p)) /\ \A u \in Task : NamesItsServer(u)'
    BY <1>2, <1>5 DEF Wanes, ServerInv, NamesItsServer
  <2>3. Beside
    BY <1>2, <1>5, <2>1, <2>2 DEF Beside
  <2> QED
    BY <2>3, BesideKeeps
<1> QED
  BY <1>1, <1>4, <1>5

LEMMA ServerInvNext == ServerInv /\ [ServerNext]_serverVars => ServerInv'
<1> SUFFICES ASSUME ServerInv, [ServerNext]_serverVars PROVE ServerInv'
  OBVIOUS
<1>1. ASSUME NEW t \in Task, TaskSteps(t) \/ SpawnFails(t)
      PROVE  ServerInv'
  BY <1>1, AsideKeeps, RestartLooksKeeps, RestartStopsKeeps, WaitsAndChecksKeep, StartSpawnsKeeps,
     NamesAndPlacesKeep, PollSeesExitKeeps, EndOfCallKeeps
     DEF TaskSteps
<1>2. ASSUME NEW t \in Task, ConnectEnsures(t) \/ ApplyWorkspace(t)
      PROVE  ServerInv'
  BY <1>2, ConnectEnsuresKeeps, ApplyWorkspaceKeeps
<1>3. ASSUME NEW p \in Process, ProcessSteps(p) \/ Dies(p)
      PROVE  ServerInv'
  BY <1>3, MachineKeeps DEF ProcessSteps
<1>4. CASE SwitchBackend \/ Crash \/ (\E t \in Task : StopManagedServer(t) \/ Quit(t))
  BY <1>4, CommandsKeep
<1>5. CASE UNCHANGED serverVars
  BY <1>5 DEF serverVars, ServerInv, ServerTypeOK, NamesItsServer, RestartInv, Restarting,
              NobodyElse, NoneLetGo, ChildLives, StageInv, InDirectory, StartsIn, Living, Dying
<1> QED
  BY <1>1, <1>2, <1>3, <1>4, <1>5 DEF ServerNext

(* The manager of local_server.rs, its processes and its calls have their   *)
(* types, and a child the manager holds has not been reaped, whatever calls  *)
(* stop, start and reap one another's servers between their locks.          *)
THEOREM ServerTypeCorrect == ServerInit /\ [][ServerNext]_serverVars => []ServerTypeOK
<1>1. ServerInv => ServerTypeOK
  BY DEF ServerInv
<1> QED
  BY <1>1, ServerInvInit, ServerInvNext, PTL

(* restart_in (local_server.rs) ends on a server in the directory it was    *)
(* asked for, when nothing else ran beside it and the server was this app's *)
(* only one: for any number of processes, of calls, and of servers that     *)
(* die, are stopped or fail to start meanwhile.                             *)
THEOREM RestartCorrect == ServerInit /\ [][ServerNext]_serverVars => RestartMoves
<1> DEFINE Landed(t) ==
             (Reached(t) /\ calls[t].do = "restart" /\ calls[t].ours /\ calls[t].alone) =>
               \A p \in Serving(calls[t].of) \cup Dying(calls[t].of) :
                 procs[p].dir = StartsIn(calls[t])
<1>1. ServerInv => \A t \in Task : Landed(t)
  <2>1. SUFFICES ASSUME ServerInv, NEW t \in Task, Restarting(t), Reached(t), calls[t].ours,
                        NEW p \in Serving(calls[t].of) \cup Dying(calls[t].of)
                 PROVE  procs[p].dir = StartsIn(calls[t])
    BY DEF Restarting
  <2>2. p \in Living(calls[t].of)
    BY DEF Serving, Dying, Living
  <2>3. StageInv(t) /\ calls[t].at \in {"ask", "poll"}
    BY <2>1 DEF ServerInv, RestartInv, Reached
  <2> QED
    BY <2>1, <2>2, <2>3 DEF StageInv, InDirectory
<1>2. ServerInv => [\A t \in Task : Landed(t)]_serverVars
  BY <1>1
<1> QED
  BY <1>2, ServerInvInit, ServerInvNext, PTL DEF RestartMoves

-----------------------------------------------------------------------------
(* The parts together.                                                      *)

LEMMA PartsBehave ==
  Spec => /\ ConversationSpec
          /\ FeedInit /\ [][FeedNext]_feedVars
          /\ ServerInit /\ [][ServerNext]_serverVars
          /\ CacheSpec
          /\ SettingsSpec
<1>1. Init => ConversationInit /\ FeedInit /\ ServerInit /\ CacheInit /\ SettingsInit
  BY DEF Init
<1>2. [Next]_vars => [ConversationNext]_convVars
  BY DEF Next, vars
<1>3. [Next]_vars => [FeedNext]_feedVars
  BY DEF Next, vars
<1>4. [Next]_vars => [ServerNext]_serverVars
  BY DEF Next, vars
<1>5. [Next]_vars => [CacheNext]_cacheVars
  BY DEF Next, vars
<1>6. [Next]_vars => [SettingsNext]_settingsVars
  BY DEF Next, vars
<1> QED
  BY <1>1, <1>2, <1>3, <1>4, <1>5, <1>6, PTL DEF Spec, ConversationSpec, CacheSpec, SettingsSpec

(* The conversation, the phone's feed, the server manager, the cache and the *)
(* settings have their types in their composition too, where one of them     *)
(* runs and the others wait (chat.rs, client.rs, local_server.rs,            *)
(* session_cache.rs, settings.rs).                                           *)
THEOREM ServicesTypeCorrect == Spec => []TypeOK
<1>1. /\ ConversationTypeOK /\ FeedTypeOK /\ ServerTypeOK /\ CacheTypeOK /\ SettingsTypeOK
      => TypeOK
  BY DEF TypeOK
<1> QED
  BY <1>1, PartsBehave, ConversationTypeCorrect, FeedTypeCorrect, ServerTypeCorrect, CacheTypeCorrect,
     SettingsTypeCorrect, PTL
=============================================================================
