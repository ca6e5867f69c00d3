--------------------------- MODULE DesktopRouting ---------------------------
(***************************************************************************)
(* Why a prompt reaches the conversation it was sent from, and why a       *)
(* queued one is of the conversation on screen: the invariants behind      *)
(* PromptReachesItsView and QueueFollowsView.  A gateway that announces    *)
(* sessions moves the live id (HandleSessionInfo), and then only what does *)
(* not depend on it is kept.                                               *)
(***************************************************************************)
EXTENDS DesktopClient

(* A task that has an adapter to itself: its lock is held, past ensure_stream. *)
OpenHolds(o)    == o.pc \in {"history", "resume", "resumed", "refused"}
DeliverHolds(d) == d.pc \in {"resume", "resumed", "create", "created", "submit"}

OpenHasAdapter(o)    == o.pc = "ensure" \/ OpenHolds(o)
DeliverHasAdapter(d) == d.pc \in {"lock", "ensure"} \/ DeliverHolds(d)

(* No two tasks use one adapter at a time, whatever they await while they   *)
(* hold its lock (`Arc<AsyncMutex<Backend>>`, state.rs).                    *)
LockInv ==
  /\ \A o \in opens : OpenHasAdapter(o) => o.inst \in Adapters
  /\ \A d \in delivers : DeliverHasAdapter(d) => d.inst \in Adapters
  /\ \A o \in opens : OpenHolds(o) => backends[o.inst].guard = "held"
  /\ \A d \in delivers : DeliverHolds(d) => backends[d.inst].guard = "held"
  /\ \A o, p \in opens : OpenHolds(o) /\ OpenHolds(p) /\ o.inst = p.inst => o = p
  /\ \A d, e \in delivers : DeliverHolds(d) /\ DeliverHolds(e) /\ d.inst = e.inst => d = e
  /\ \A o \in opens, d \in delivers : OpenHolds(o) /\ DeliverHolds(d) => o.inst # d.inst

(* What is on screen is one session, and the live one is that session. *)
OneSession == selected = stored /\ (AnnouncesSessions \/ live \in {None, stored})

(* No announcement is on its way. *)
NothingAnnounced ==
  AnnouncesSessions \/ \A p \in pumps : \A n \in DOMAIN p.events : p.events[n].kind # "SessionInfo"

(* The session a prompt was sent from, or the one made for its blank chat. *)
Its(home, view, s) == IF home # None THEN s = home ELSE [session |-> s, view |-> view] \in created

FromThisView(d) == d.view = view_generation

(* A delivery whose view is on screen uses the current adapter, and while   *)
(* the view lasts the session on screen is the prompt's own.                *)
Aim(d) ==
  /\ d.view <= view_generation
  /\ FromThisView(d) =>
       /\ Its(d.home, d.view, stored) \/ (d.home = None /\ stored = None)
       /\ DeliverHasAdapter(d) => d.inst = Current
       /\ d.pc \in {"resume", "resumed"} => d.target = stored
       /\ d.pc \in {"create", "created"} => stored = None
  /\ d.pc = "created" => [session |-> d.target, view |-> d.view] \in created
  /\ d.pc = "submit" => AnnouncesSessions \/ Its(d.home, d.view, d.target)

AimInv == \A d \in delivers : Aim(d)

RoutingInv ==
  /\ LockInv /\ OneSession /\ NothingAnnounced /\ AimInv
  /\ AnnouncesSessions \/ PromptReachesItsView
  /\ QueueFollowsView
=============================================================================
