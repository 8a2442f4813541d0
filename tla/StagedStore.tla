---------------------------- MODULE StagedStore ----------------------------
(***************************************************************************)
(* What the routing store promises to the rest of the gateway, with the    *)
(* resources reduced to one opaque value per resource set.                 *)
(*                                                                         *)
(* The store keeps a desired resource set under a revision number, the     *)
(* resource set that was last confirmed as running (applied), and one file *)
(* that is always replaced as a whole.  An ordinary edit reaches the file  *)
(* at once; a configuration import is staged, that is kept in memory only, *)
(* until the staged resources are applied.  A crash loses the memory and   *)
(* nothing else.                                                           *)
(*                                                                         *)
(* RouteStore.tla is the detailed store and implements this module;        *)
(* ControlPlane.tla is built on top of it.                                 *)
(***************************************************************************)
EXTENDS Naturals

CONSTANTS
  Content,      \* the resource sets the store can hold
  Empty,        \* the resource set of a new store
  Callers,      \* the goroutines that take a snapshot and confirm it later
  MaxRevision   \* bound on the revision counter (a uint64 in the code)

ASSUME ContentAssumption == Empty \in Content
ASSUME RevisionAssumption == MaxRevision \in Nat

VARIABLES
  staged,    \* the desired resources are kept in memory only
  revision,  \* revision of the desired resources
  desired,   \* the desired resources
  applied,   \* the last confirmed snapshot
  held,      \* per caller: the snapshot it is working on
  file       \* the route file (persistent)

storeVars == <<staged, revision, desired, applied, held, file>>

Snapshot == [res : Content, rev : 0..MaxRevision]

NoSnapshot == [res |-> Empty, rev |-> MaxRevision + 1]

File == [res : Content, rev : 0..MaxRevision,
         ares : Content, arev : 0..MaxRevision]

(* Every operation of Store keeps its fields within their types, and no    *)
(* revision it hands out or writes exceeds the bound.                      *)
StoreTypeOK ==
  /\ staged \in BOOLEAN
  /\ revision \in 0..MaxRevision
  /\ desired \in Content
  /\ applied \in Snapshot
  /\ held \in [Callers -> Snapshot \cup {NoSnapshot}]
  /\ file \in File

FileOf(res, rev, snap) ==
  [res |-> res, rev |-> rev, ares |-> snap.res, arev |-> snap.rev]

(* A new store, or a store of an older format, whose contents become the   *)
(* applied baseline.                                                       *)
StoreInit ==
  /\ staged = FALSE
  /\ \/ revision = 0 /\ desired = Empty
     \/ revision = 1 /\ MaxRevision >= 1 /\ desired \in Content
  /\ applied = [res |-> desired, rev |-> revision]
  /\ held = [c \in Callers |-> NoSnapshot]
  /\ file = FileOf(desired, revision, applied)

----------------------------------------------------------------------------

Pending == revision # applied.rev

\* Bug: an edit keeps the revision.
EditKeepsRevision ==
  /\ desired' \in Content
  /\ file' = IF staged THEN file ELSE FileOf(desired', revision, applied)
  /\ UNCHANGED <<staged, revision, applied, held>>

(* An edit of the desired resources: written through unless an import is   *)
(* staged.                                                                 *)
Edit ==
  /\ revision < MaxRevision
  /\ desired' \in Content
  /\ revision' = revision + 1
  /\ file' = IF staged THEN file ELSE FileOf(desired', revision', applied)
  /\ UNCHANGED <<staged, applied, held>>

\* Bug: a replacement counts on from the revision in the file.
ReplaceFromFile ==
  /\ file.rev < MaxRevision
  /\ desired' \in Content
  /\ revision' = file.rev + 1
  /\ staged' = FALSE
  /\ file' = FileOf(desired', revision', applied)
  /\ UNCHANGED <<applied, held>>

(* Whole-set replacement that leaves the staged mode.                      *)
Replace ==
  /\ revision < MaxRevision
  /\ desired' \in Content
  /\ revision' = revision + 1
  /\ staged' = FALSE
  /\ file' = FileOf(desired', revision', applied)
  /\ UNCHANGED <<applied, held>>

\* Bug: staged resources are not marked as such.
StageUnmarked ==
  /\ revision < MaxRevision
  /\ desired' \in Content
  /\ revision' = revision + 1
  /\ UNCHANGED <<staged, applied, held, file>>

(* An import: nothing is written.                                          *)
Stage ==
  /\ revision < MaxRevision
  /\ staged' = TRUE
  /\ desired' \in Content
  /\ revision' = revision + 1
  /\ UNCHANGED <<applied, held, file>>

PersistStaged ==
  /\ staged
  /\ file' = FileOf(desired, revision, applied)
  /\ staged' = FALSE
  /\ UNCHANGED <<revision, desired, applied, held>>

TakeDesired(k) ==
  /\ held' = [held EXCEPT ![k] = [res |-> desired, rev |-> revision]]
  /\ UNCHANGED <<staged, revision, desired, applied, file>>

(* The caller is done with its snapshot.                                   *)
Forget(k) ==
  /\ held' = [held EXCEPT ![k] = NoSnapshot]
  /\ UNCHANGED <<staged, revision, desired, applied, file>>

\* Bug: an older snapshot replaces a newer confirmed one.
ConfirmableOlder(snap) == snap.rev <= revision

Confirmable(snap) == snap.rev <= revision /\ snap.rev >= applied.rev

(* Confirm the snapshot that the caller got running.                       *)
MarkApplied(k) ==
  /\ held[k] # NoSnapshot
  /\ Confirmable(held[k])
  /\ applied' = held[k]
  /\ file' = FileOf(desired, revision, held[k])
  /\ staged' = FALSE
  /\ UNCHANGED <<revision, desired, held>>

(* The process dies and comes back with what the file holds.               *)
Restart ==
  /\ staged' = FALSE
  /\ revision' = file.rev
  /\ desired' = file.res
  /\ applied' = [res |-> file.ares, rev |-> file.arev]
  /\ held' = [c \in Callers |-> NoSnapshot]
  /\ UNCHANGED file

StoreNext ==
  \/ Edit \/ Replace \/ Stage \/ PersistStaged
  \/ \E k \in Callers : TakeDesired(k) \/ MarkApplied(k) \/ Forget(k)
  \/ Restart

StoreSpec == StoreInit /\ [][StoreNext]_storeVars

----------------------------------------------------------------------------

(* The file always holds the confirmed snapshot, and the desired resources *)
(* unless an import is staged: what saveLocked and commitLocked are for.   *)
Durable ==
  /\ file.ares = applied.res /\ file.arev = applied.rev
  /\ ~staged => file.res = desired /\ file.rev = revision

(* No confirmed revision lies ahead of the desired one, and the Pending    *)
(* flag is exact: a store that reports nothing to apply has nothing to     *)
(* apply (Store.Pending compares revisions, never resources).              *)
PendingExact ==
  /\ applied.rev <= revision
  /\ applied.rev = revision => applied.res = desired

(* A snapshot that a caller took and has not confirmed yet is still what   *)
(* its revision number names, however many edits, imports and              *)
(* confirmations of others came in between: MarkApplied may trust it.      *)
SnapshotsSound ==
  \A k \in Callers : held[k] # NoSnapshot =>
    /\ held[k].rev <= revision
    /\ held[k].rev = revision => held[k].res = desired
    /\ held[k].rev = applied.rev => held[k].res = applied.res
    /\ \A j \in Callers : held[j].rev = held[k].rev => held[j] = held[k]

(* A confirmed revision number names one resource set for good, and the    *)
(* confirmed revision never goes back, crashes included (MarkApplied's     *)
(* stale check).                                                           *)
AppliedMonotone ==
  [][/\ applied'.rev >= applied.rev
     /\ applied'.rev = applied.rev => applied'.res = applied.res]_storeVars

=============================================================================
