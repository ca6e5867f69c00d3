------------------------------ MODULE Settings ------------------------------
(***************************************************************************)
(* Settings (core/src/settings.rs) and the desktop's commands on them: one *)
(* backend is active and its connection is in flat fields; the others keep *)
(* theirs in a record each.  Every command ends in a save, a sibling file  *)
(* renamed into place; the app may end at any time.                        *)
(*                                                                         *)
(* An address is host, port and TLS together, Default a backend's own.     *)
(* Preferences, window and workspace are left out: they are copied as is.  *)
(***************************************************************************)
EXTENDS Integers, Sequences

CONSTANTS Agent,    \* BackendKind
          Address,  \* what may be typed for host, port and TLS
          Token,    \* credentials
          MaxEdits  \* bound: commands and launches

CONSTANTS Default, NoToken

ASSUME SettingsAssumption ==
  Default \notin Address /\ NoToken \notin Token /\ MaxEdits \in Nat

VARIABLES
  settings,  \* Settings in memory
  file,      \* settings.json
  saving,    \* the sibling file that is not renamed yet, if any
  probe,     \* a connect that found no token asks the server for one
  last,      \* per backend: what it was last connected with or set to
  kept,      \* the same, as of the file
  edits

settingsVars == <<settings, file, saving, probe, last, kept, edits>>

Connection == [address : Address \cup {Default}, token : Token \cup {NoToken}]
Switch == {"on", "off", "unset"}
Scoped == [conn : Connection, switch : Switch]
Stored == [active : Agent, now : Connection, per : [Agent -> Scoped],
           auto : BOOLEAN]  \* auto_connect: the one switch of an old file

SettingsTypeOK ==
  /\ settings \in Stored /\ file \in Stored
  /\ saving \in Seq(Stored) /\ Len(saving) <= 1
  /\ probe \in {"none"} \cup Agent
  /\ last \in [Agent -> Connection] /\ kept \in [Agent -> Connection]
  /\ edits \in 0..MaxEdits

-----------------------------------------------------------------------------
(* The flat fields of the active backend, mirrored into its record.         *)
SyncActive(s) == [s EXCEPT !.per[s.active].conn = s.now]

(* Mutant: the switch of the backend that was on is left as it was. *)
LeavesOthersOn(s, k, on) ==
  [SyncActive(s) EXCEPT !.per[k].switch = IF on THEN "on" ELSE "off"]

SetBackendEnabled(s, k, on) ==
  [SyncActive(s) EXCEPT
     !.per = [b \in Agent |->
       IF b = k THEN [@[b] EXCEPT !.switch = IF on THEN "on" ELSE "off"]
       ELSE IF on THEN [@[b] EXCEPT !.switch = "off"] ELSE @[b]]]

SwitchTo(s, k) == [SyncActive(s) EXCEPT !.active = k, !.now = SyncActive(s).per[k].conn]

(* What goes to disk: the flat token and the old switch are never written.  *)
Persisted(s) == [SyncActive(s) EXCEPT !.now = [s.now EXCEPT !.token = NoToken], !.auto = TRUE]

(* Mutant: the token is taken from the flat fields, where it is never written. *)
KeepsFlatToken(s) == s

ApplyScoped(s) ==
  IF s.per[s.active].conn.token = NoToken THEN s
  ELSE [s EXCEPT !.now.token = s.per[s.active].conn.token]

(* A file from before the switches: the active backend inherits the old one. *)
MigrateSwitches(s) ==
  IF \E b \in Agent : s.per[b].switch # "unset" THEN s
  ELSE [SyncActive(s) EXCEPT
          !.per = [b \in Agent |->
            [@[b] EXCEPT !.switch = IF b = s.active /\ s.auto THEN "on" ELSE "off"]]]

LoadFrom(stored) == MigrateSwitches(ApplyScoped(stored))

-----------------------------------------------------------------------------
SaveTo(s) == settings' = s /\ saving' = <<Persisted(s)>>

(* The file is one from before the switches.                                *)
SettingsInit ==
  \E k \in Agent, conns \in [Agent -> Connection], on \in BOOLEAN :
    LET old == [active |-> k, now |-> [conns[k] EXCEPT !.token = NoToken],
                per |-> [b \in Agent |-> [conn |-> conns[b], switch |-> "unset"]],
                auto |-> on]
    IN /\ settings = LoadFrom(old)
       /\ file = old /\ saving = <<Persisted(LoadFrom(old))>>
       /\ probe = "none"
       /\ last = conns /\ kept = conns
       /\ edits = 0

Edit == saving = <<>> /\ edits < MaxEdits /\ edits' = edits + 1

SaveRenames ==
  /\ saving # <<>>
  /\ file' = Head(saving) /\ saving' = <<>> /\ kept' = last
  /\ UNCHANGED <<settings, probe, last, edits>>

(* set and clear_credential: the flat fields, as they are typed.            *)
Type == \E conn \in Connection :
  /\ Edit
  /\ SaveTo([settings EXCEPT !.now = conn])
  /\ last' = [last EXCEPT ![settings.active] = conn]
  /\ UNCHANGED <<file, probe, kept>>

(* A set whose port is refused has taken the fields before it, and saves none. *)
SetRefused == \E address \in Address :
  /\ Edit
  /\ settings' = [settings EXCEPT !.now.address = address]
  /\ last' = [last EXCEPT ![settings.active].address = address]
  /\ UNCHANGED <<file, saving, probe, kept>>

EnableBackend == \E k \in Agent :
  /\ Edit
  /\ ~(k = settings.active /\ settings.per[k].switch = "on")
  /\ SaveTo(SwitchTo(SetBackendEnabled(settings, k, TRUE), k))
  /\ probe' = "none"
  /\ UNCHANGED <<file, last, kept>>

DisableBackend == \E k \in Agent :
  /\ Edit
  /\ SaveTo(SetBackendEnabled(settings, k, FALSE))
  /\ probe' = IF k = settings.active THEN "none" ELSE probe
  /\ UNCHANGED <<file, last, kept>>

(* A local Hermes hands out its token: asked for when there is none, kept   *)
(* when it comes, whatever was typed meanwhile.                             *)
ProbeAsks ==
  /\ settings.now.token = NoToken /\ settings.per[settings.active].switch = "on"
  /\ probe = "none" /\ probe' = settings.active
  /\ UNCHANGED <<settings, file, saving, last, kept, edits>>

ProbeAnswers == \E token \in Token :
  /\ Edit /\ probe # "none" /\ probe' = "none"
  /\ SaveTo([settings EXCEPT !.now.token = token])
  /\ last' = [last EXCEPT ![settings.active].token = token]
  /\ UNCHANGED <<file, kept>>

(* The app ends, in the middle of a save or not, and is started again.      *)
Relaunch ==
  /\ edits < MaxEdits /\ edits' = edits + 1
  /\ SaveTo(LoadFrom(file))
  /\ probe' = "none" /\ last' = kept
  /\ UNCHANGED <<file, kept>>

SettingsNext ==
  \/ SaveRenames \/ Type \/ SetRefused \/ EnableBackend \/ DisableBackend \/ ProbeAsks \/ ProbeAnswers \/ Relaunch

SettingsSpec == SettingsInit /\ [][SettingsNext]_settingsVars

-----------------------------------------------------------------------------
(* What a backend was last set to is there when it is chosen again, however *)
(* many others were used and however often the app ended in between.        *)
ConnectionOf(s, k) == IF k = s.active THEN s.now ELSE s.per[k].conn

SettingsComeBack == \A k \in Agent : ConnectionOf(settings, k) = last[k]

(* A backend that is on is the one in use, in the file too: a stale switch  *)
(* would reconnect a backend the user had left (set_backend_enabled).       *)
OnIsActive(s) == \A k \in Agent : s.per[k].switch = "on" => k = s.active

OnlyActiveIsOn == OnIsActive(settings) /\ OnIsActive(file)
=============================================================================
