---------------------------- MODULE SessionCache ----------------------------
(***************************************************************************)
(* SessionCacheStore (core/src/cache.rs): the cache goes to a sibling file *)
(* that is renamed into place.  The mobile bridge hands its snapshots to   *)
(* one writer thread; the desktop starts a thread for each, and may clear  *)
(* the file.  A snapshot is its number.  A file that is opened again is    *)
(* the same file, also when it was renamed in between: two writers of one  *)
(* file leave neither snapshot in it.                                      *)
(***************************************************************************)
EXTENDS Integers, Sequences, FiniteSets

CONSTANTS Frontends,  \* who uses the store: "mobile", "desktop"
          MaxSaves,   \* bound: snapshots saved
          MaxEnds     \* bound: how often the app ends

ASSUME CacheAssumption ==
  Frontends \subseteq {"mobile", "desktop"} /\ MaxSaves \in Nat /\ MaxEnds \in Nat

VARIABLES
  frontend,
  snapshot,   \* the cache in memory: the number of its last save, or of the one it was loaded from
  saves,      \* snapshots saved so far
  queue,      \* mobile: on their way to the writer thread
  writers,    \* save_blocking, under way: [snapshot, file, at]
  contents,   \* files: what is in each, <<>> when it is just opened
  tmp, path,  \* which file has the name; 0: none
  launches

cacheVars == <<frontend, snapshot, saves, queue, writers, contents, tmp, path, launches>>

Writer == [snapshot : 1..MaxSaves, file : Nat, at : {"open", "write", "rename"}]

CacheTypeOK ==
  /\ frontend \in Frontends
  /\ snapshot \in 0..MaxSaves /\ saves \in 0..MaxSaves
  /\ queue \in Seq(1..MaxSaves) /\ writers \subseteq Writer
  /\ contents \in Seq(Seq(1..MaxSaves))
  /\ tmp \in 0..Len(contents) /\ path \in 0..Len(contents)
  /\ launches \in 0..MaxEnds

CacheInit ==
  /\ frontend \in Frontends
  /\ snapshot = 0 /\ saves = 0 /\ queue = <<>> /\ writers = {}
  /\ contents = <<>> /\ tmp = 0 /\ path = 0 /\ launches = 0

-----------------------------------------------------------------------------
(* The file is as it was saved: one writer wrote it, and finished.          *)
IsWhole(f) == Len(contents[f]) = 1

Opening(n) == [snapshot |-> n, file |-> 0, at |-> "open"]

(* record_history, save_now: a clone of the cache goes to a writer.         *)
Save ==
  /\ saves < MaxSaves
  /\ saves' = saves + 1 /\ snapshot' = saves + 1
  /\ IF frontend = "mobile"
       THEN queue' = Append(queue, saves + 1) /\ UNCHANGED writers
       ELSE writers' = writers \cup {Opening(saves + 1)} /\ UNCHANGED queue
  /\ UNCHANGED <<frontend, contents, tmp, path, launches>>

(* Mutant: a thread for each snapshot, as on the desktop. *)
TakesBeside ==
  /\ queue # <<>>
  /\ writers' = writers \cup {Opening(Head(queue))} /\ queue' = Tail(queue)
  /\ UNCHANGED <<frontend, snapshot, saves, contents, tmp, path, launches>>

(* The mobile writer thread takes the next one when it is done with the last. *)
WriterTakes ==
  /\ queue # <<>> /\ writers = {}
  /\ writers' = {Opening(Head(queue))} /\ queue' = Tail(queue)
  /\ UNCHANGED <<frontend, snapshot, saves, contents, tmp, path, launches>>

(* Mutant: the snapshot is written to the file that is read. *)
OpensInPlace == \E w \in writers :
  LET f == IF path = 0 THEN Len(contents) + 1 ELSE path
  IN /\ w.at = "open"
     /\ contents' = IF path = 0 THEN Append(contents, <<>>) ELSE [contents EXCEPT ![f] = <<>>]
     /\ path' = f
     /\ writers' = (writers \ {w}) \cup {[w EXCEPT !.file = f, !.at = "write"]}
     /\ UNCHANGED <<frontend, snapshot, saves, queue, tmp, launches>>

(* fs::write truncates the sibling file or makes it ...                     *)
WriterOpens == \E w \in writers :
  LET f == IF tmp = 0 THEN Len(contents) + 1 ELSE tmp
  IN /\ w.at = "open"
     /\ contents' = IF tmp = 0 THEN Append(contents, <<>>) ELSE [contents EXCEPT ![f] = <<>>]
     /\ tmp' = f
     /\ writers' = (writers \ {w}) \cup {[w EXCEPT !.file = f, !.at = "write"]}
     /\ UNCHANGED <<frontend, snapshot, saves, queue, path, launches>>

(* ... and fills it.                                                        *)
WriterWrites == \E w \in writers :
  /\ w.at = "write"
  /\ contents' = [contents EXCEPT ![w.file] = Append(@, w.snapshot)]
  /\ writers' = (writers \ {w}) \cup {[w EXCEPT !.at = "rename"]}
  /\ UNCHANGED <<frontend, snapshot, saves, queue, tmp, path, launches>>

WriterRenames == \E w \in writers :
  /\ w.at = "rename"
  /\ IF tmp = 0 THEN UNCHANGED <<path, tmp>> ELSE path' = tmp /\ tmp' = 0
  /\ writers' = writers \ {w}
  /\ UNCHANGED <<frontend, snapshot, saves, queue, contents, launches>>

(* clear_cache removes the file; what is being written is not stopped.      *)
Clear ==
  /\ frontend = "desktop" /\ path # 0
  /\ path' = 0 /\ snapshot' = 0
  /\ UNCHANGED <<frontend, saves, queue, writers, contents, tmp, launches>>

(* The app ends with its threads, and the next one loads what it finds.     *)
Relaunches ==
  /\ launches < MaxEnds /\ launches' = launches + 1
  /\ queue' = <<>> /\ writers' = {}
  /\ snapshot' = IF path # 0 /\ IsWhole(path) THEN Head(contents[path]) ELSE 0
  /\ UNCHANGED <<frontend, saves, contents, tmp, path>>

CacheNext ==
  \/ Save \/ WriterTakes \/ WriterOpens \/ WriterWrites \/ WriterRenames \/ Clear \/ Relaunches

CacheSpec == CacheInit /\ [][CacheNext]_cacheVars

-----------------------------------------------------------------------------
(* On the phone the file is, at every moment the app may end, a whole       *)
(* snapshot: the one before those still on their way to it.                 *)
Written ==
  IF path = 0 THEN 0 ELSE Head(contents[path])

ArchiveIsCurrent ==
  frontend = "mobile" =>
    /\ path # 0 => IsWhole(path)
    /\ LET coming == {queue[i] : i \in DOMAIN queue} \cup {w.snapshot : w \in writers}
       IN \/ Written = snapshot /\ coming = {}
          \/ snapshot \in coming /\ \A n \in coming : Written < n
=============================================================================
