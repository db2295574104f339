----------------------------- MODULE Inventory -----------------------------
(***************************************************************************)
(* The mutations of the Inventory modality: FrooxEngineInventoryBridge     *)
(* makes directories, copies, moves and removes in a tree that the cloud   *)
(* keeps as flat records, each with the path of its directory.  A mutation *)
(* is a sequence of round trips to the cloud, any of which may fail or     *)
(* find the call cancelled, and other calls run in between.                *)
(*                                                                         *)
(* A path is the sequence of names below /Inventory.  Worlds and links are *)
(* items like any other here: a mutation does not follow links.            *)
(***************************************************************************)
EXTENDS Integers, FiniteSets, SequencesExt

CONSTANTS Name, Asset,
          NoAsset,   \* what a directory has for an AssetURI
          Initial,   \* the records at the start
          Call,      \* the requests clients make in a run, each once
          MaxOpen    \* bound on the calls in progress at once

Path  == Seq(Name)
Entry == [parent : Path, name : Name, kind : {"directory", "item"}, asset : Asset \cup {NoAsset}]
Op    == {"mkdir", "copy", "move", "remove"}

ASSUME InventoryAssumption ==
  /\ Initial \in Seq(Entry)
  /\ \A c \in Call : c.op \in Op /\ c.src \in Path /\ c.dst \in Path /\ c.recursive \in BOOLEAN
  /\ MaxOpen \in Nat

VARIABLES
  records,   \* the cloud: the entry of each record id
  lastId,    \* the last RecordId generated
  rpc,       \* where each call stands
  plan,      \* what it has collected: snapshots of records, the root first
  done,      \* how many of them it has worked off
  before     \* history: the records when it began, until another call writes

cloudVars == <<records, lastId>>
vars      == <<cloudVars, rpc, plan, done, before>>

Step    == {"collect", "copyRoot", "create", "confirm", "direct"}
Refusal == {"not_found", "conflict", "recursion_required", "invalid"}
Running(c) == rpc[c] \in Step

Item   == [id : Nat, entry : Entry, listed : BOOLEAN]
NoTree == <<>>

TypeOK ==
  /\ DOMAIN records \subseteq 1..lastId
  /\ \A i \in DOMAIN records : records[i] \in Entry
  /\ lastId \in Nat
  /\ rpc \in [Call -> {"idle", "ok", "failed", "abandoned"} \cup Step \cup Refusal]
  /\ \A c \in Call : plan[c] \in Seq(Item) /\ done[c] \in 0..Len(plan[c])

Init ==
  /\ records = Initial
  /\ lastId = Cardinality(DOMAIN Initial)
  /\ rpc = [c \in Call |-> "idle"]
  /\ plan = [c \in Call |-> <<>>]
  /\ done = [c \in Call |-> 0]
  /\ before = [c \in Call |-> NoTree]

-----------------------------------------------------------------------------
(* Records and paths.                                                      *)

FullPath(e)   == Append(e.parent, e.name)
Parent(p)     == Front(p)
NameOf(p)     == Last(p)
IsDirectory(e) == e.kind = "directory"
Snapshot(i)   == [id |-> i, entry |-> records[i], listed |-> ~IsDirectory(records[i])]

AtPath(p)     == {i \in DOMAIN records : FullPath(records[i]) = p}
GetChildren(p) == {i \in DOMAIN records : records[i].parent = p}

(* SaveRecord is an upsert: it also brings back a record removed since.    *)
Save(id, e) == records' = [i \in DOMAIN records \cup {id} |-> IF i = id THEN e ELSE records[i]]
Delete(id)  == records' = [i \in DOMAIN records \ {id} |-> records[i]]

(* A write disturbs every other call in progress. *)
Wrote(c)     == before' = [d \in Call |-> IF d = c THEN before[c] ELSE NoTree]
WroteLast    == before' = [d \in Call |-> NoTree]
Alone(c)     == before[c] # NoTree

(* A call ends, with a result, a refusal or an error.                      *)
End(c, outcome) ==
  /\ rpc' = [rpc EXCEPT ![c] = outcome]
  /\ plan' = [plan EXCEPT ![c] = <<>>]
  /\ done' = [done EXCEPT ![c] = 0]

EndQuietly(c, outcome) ==
  /\ End(c, outcome)
  /\ before' = [before EXCEPT ![c] = NoTree]
  /\ UNCHANGED cloudVars

Goto(c, at) == rpc' = [rpc EXCEPT ![c] = at]

-----------------------------------------------------------------------------
(* The first round trip of every call: TryResolveAsync.  Where two records *)
(* share a path the cloud answers with either.                             *)

Begin(c, at, items) ==
  /\ Goto(c, at)
  /\ plan' = [plan EXCEPT ![c] = items]
  /\ before' = [before EXCEPT ![c] = records]
  /\ UNCHANGED done

Refuse(c, outcome) ==
  /\ Goto(c, outcome)
  /\ UNCHANGED <<plan, done, before>>

(* MakeDirAsync splits its path before it looks for it. *)
ResolveMakeDir(c) ==
  /\ c.op = "mkdir"
  /\ IF c.src = <<>> THEN Refuse(c, "invalid")
     ELSE IF AtPath(c.src) # {} THEN Refuse(c, "conflict")
     ELSE Begin(c, "create", <<>>)

ResolveSource(c) ==
  /\ c.op # "mkdir"
  /\ \/ AtPath(c.src) = {} /\ Refuse(c, "not_found")
     \/ \E i \in AtPath(c.src) :
          IF c.op \in {"copy", "move"} /\ c.dst = <<>> THEN Refuse(c, "invalid")
          ELSE IF c.op = "remove" /\ IsDirectory(records[i]) /\ ~c.recursive
          THEN Refuse(c, "recursion_required")
          ELSE Begin(c, IF c.op = "copy" THEN "copyRoot" ELSE "collect", <<Snapshot(i)>>)

Resolve(c) ==
  /\ rpc[c] = "idle"
  /\ Cardinality({d \in Call : Running(d)}) < MaxOpen
  /\ ResolveMakeDir(c) \/ ResolveSource(c)
  /\ UNCHANGED cloudVars

-----------------------------------------------------------------------------
(* CollectSubtreeAsync: the directories are listed depth first, each in a  *)
(* round trip of its own, and what a listing finds follows its directory.  *)

Unlisted(c)    == {k \in DOMAIN plan[c] : ~plan[c][k].listed}
Collected(c)   == rpc[c] = "collect" /\ Unlisted(c) = {}
Orders(S)      == {s \in [1..Cardinality(S) -> S] : \A k, l \in DOMAIN s : k # l => s[k] # s[l]}

ListDirectory(c) ==
  /\ rpc[c] = "collect"
  /\ \E k \in Unlisted(c) :
       /\ \A l \in Unlisted(c) : k <= l
       /\ \E s \in Orders(GetChildren(FullPath(plan[c][k].entry))) :
            plan' = [plan EXCEPT ![c] =
              SubSeq(@, 1, k - 1) \o <<[@[k] EXCEPT !.listed = TRUE]>>
              \o [l \in DOMAIN s |-> Snapshot(s[l])] \o SubSeq(@, k + 1, Len(@))]
  /\ UNCHANGED <<cloudVars, rpc, done, before>>

(* Mutant: the root of a removed or moved tree is left where it is.        *)
WorkRootless(c) == Tail(plan[c])

(* What is worked off one by one: the descendants, and then the root that  *)
(* a copy has had its turn with already.                                   *)
Work(c) == IF c.op = "copy" THEN Tail(plan[c]) ELSE Append(Tail(plan[c]), Head(plan[c]))

(* Mutant: descendants lose the directories between them and the root.     *)
RelocatedFlat(c, item) ==
  IF item.id = Head(plan[c]).id
  THEN [item.entry EXCEPT !.parent = Parent(c.dst), !.name = NameOf(c.dst)]
  ELSE [item.entry EXCEPT !.parent = c.dst]

(* A record of the collected tree as it is below the destination.          *)
Relocated(c, item) ==
  LET root == Head(plan[c]) IN
  IF item.id = root.id
  THEN [item.entry EXCEPT !.parent = Parent(c.dst), !.name = NameOf(c.dst)]
  ELSE [item.entry EXCEPT !.parent =
          c.dst \o SubSeq(@, Len(FullPath(root.entry)) + 1, Len(@))]

(* Mutant: a generated RecordId is not a new one.                          *)
SaveNewReused(e) == Save(lastId, e) /\ UNCHANGED lastId

SaveNew(e) == Save(lastId + 1, e) /\ lastId' = lastId + 1

(* CopyAsync saves the clone of the root before it looks whether that is a *)
(* directory and may be copied at all.                                     *)
CopyRoot(c) ==
  /\ rpc[c] = "copyRoot"
  /\ LET root == Head(plan[c]) IN
       /\ SaveNew(Relocated(c, root))
       /\ IF IsDirectory(root.entry) /\ ~c.recursive
          THEN End(c, "recursion_required") /\ WroteLast
          ELSE Goto(c, "collect") /\ Wrote(c) /\ UNCHANGED <<plan, done>>

(* One turn of the loop over the collected records. *)
WorkOff(c) ==
  /\ Collected(c)
  /\ done[c] < Len(Work(c))
  /\ LET item == Work(c)[done[c] + 1] IN
     \/ c.op = "copy"   /\ SaveNew(Relocated(c, item))
     \/ c.op = "move"   /\ Save(item.id, Relocated(c, item)) /\ UNCHANGED lastId
     \/ c.op = "remove" /\ Delete(item.id) /\ UNCHANGED lastId
  /\ done' = [done EXCEPT ![c] = @ + 1]
  /\ Wrote(c)
  /\ UNCHANGED <<rpc, plan>>

Finish(c) ==
  /\ Collected(c)
  /\ done[c] = Len(Work(c))
  /\ EndQuietly(c, "ok")

-----------------------------------------------------------------------------
(* CreateDirectoryRecordAsync.                                             *)

NewDirectory(c) ==
  [parent |-> Parent(c.src), name |-> NameOf(c.src), kind |-> "directory", asset |-> NoAsset]

(* AddSubdirectory on the engine's live model.  Its own save is not        *)
(* awaited: it has gone through before the upsert that follows, or not.    *)
LiveAdd(c) ==
  /\ rpc[c] = "create"
  /\ \/ SaveNew(NewDirectory(c))
     \/ lastId' = lastId + 1 /\ UNCHANGED records
  /\ plan' = [plan EXCEPT ![c] =
       <<[id |-> lastId + 1, entry |-> NewDirectory(c), listed |-> TRUE]>>]
  /\ Goto(c, "confirm")
  /\ Wrote(c)
  /\ UNCHANGED done

LiveConflict(c) ==
  /\ rpc[c] = "create"
  /\ AtPath(c.src) # {}
  /\ EndQuietly(c, "conflict")

ConfirmSave(c) ==
  /\ rpc[c] = "confirm"
  /\ Save(plan[c][1].id, plan[c][1].entry)
  /\ End(c, "ok")
  /\ WroteLast
  /\ UNCHANGED lastId

(* There is no live model, it does not know the parent, or what it added   *)
(* could not be saved: the directory is made without it.                   *)
FallBack(c) ==
  /\ rpc[c] \in {"create", "confirm"}
  /\ Goto(c, "direct")
  /\ UNCHANGED <<cloudVars, plan, done, before>>

CreateDirect(c) ==
  /\ rpc[c] = "direct"
  /\ SaveNew(NewDirectory(c))
  /\ End(c, "ok")
  /\ WroteLast

-----------------------------------------------------------------------------
(* A round trip fails, be it before or after the cloud has acted on it, or *)
(* the call is cancelled.  That does not call off an AddSubdirectory still *)
(* waiting for the engine thread.                                          *)
Fail(c) ==
  /\ Running(c)
  /\ \/ EndQuietly(c, "failed")
     \/ rpc[c] = "create" /\ EndQuietly(c, "abandoned")

LateAdd(c) ==
  /\ rpc[c] = "abandoned"
  /\ AtPath(c.src) = {}
  /\ SaveNew(NewDirectory(c))
  /\ Goto(c, "failed")
  /\ Wrote(c)
  /\ UNCHANGED <<plan, done>>

Next ==
  \E c \in Call :
    \/ Resolve(c) \/ ListDirectory(c) \/ CopyRoot(c) \/ WorkOff(c) \/ Finish(c)
    \/ LiveAdd(c) \/ LiveConflict(c) \/ ConfirmSave(c) \/ FallBack(c) \/ CreateDirect(c)
    \/ Fail(c) \/ LateAdd(c)

Spec == Init /\ [][Next]_vars

-----------------------------------------------------------------------------
(* Properties.                                                             *)

(* A tree as a user would have it: one record at a path, and a directory   *)
(* above each.                                                             *)
HasDirectory(tree, p) ==
  p = <<>> \/ \E i \in DOMAIN tree : IsDirectory(tree[i]) /\ FullPath(tree[i]) = p

Rooted(tree) == \A i \in DOMAIN tree : HasDirectory(tree, tree[i].parent)

Tidy(tree) ==
  /\ Rooted(tree)
  /\ \A i, j \in DOMAIN tree : FullPath(tree[i]) = FullPath(tree[j]) => i = j

(* The reference: what lies at or below src lies at or below dst.          *)
Under(p, e) == IsPrefix(p, FullPath(e))

Rebased(c, e) ==
  LET p == c.dst \o SubSeq(FullPath(e), Len(c.src) + 1, Len(FullPath(e)))
  IN [e EXCEPT !.parent = Front(p), !.name = Last(p)]

(* At every step of a move, and so wherever it is cut short, each record   *)
(* is whole and at its old place or at its new one, and no record outside  *)
(* the tree has been touched.                                              *)
MovePartial ==
  \A c \in Call :
    Running(c) /\ c.op = "move" /\ Alone(c) /\ Tidy(before[c]) =>
      /\ DOMAIN records = DOMAIN before[c]
      /\ \A i \in DOMAIN records :
           \/ records[i] = before[c][i]
           \/ Under(c.src, before[c][i]) /\ records[i] = Rebased(c, before[c][i])

(* A copy never leaves an orphan, wherever it is cut short: a directory is *)
(* copied before what is in it.                                            *)
CopyStaysRooted ==
  \A c \in Call :
    Running(c) /\ c.op = "copy" /\ Alone(c) /\ Tidy(before[c])
      /\ HasDirectory(before[c], Parent(c.dst))
    => Rooted(records)

WritesStayWhole == MovePartial /\ CopyStaysRooted

(* What a call that returned has done is what the shell command of its     *)
(* name does to the paths, if nobody else wrote meanwhile.                 *)
Values(tree) == {tree[i] : i \in DOMAIN tree}

Moved(c, tree) ==
  [i \in DOMAIN tree |-> IF Under(c.src, tree[i]) THEN Rebased(c, tree[i]) ELSE tree[i]]

Effect(c) ==
  LET tree == before[c]
      copied == {Rebased(c, tree[i]) : i \in {j \in DOMAIN tree : Under(c.src, tree[j])}}
  IN CASE c.op = "move"   -> records = Moved(c, tree)
       [] c.op = "remove" ->
            records = [i \in {j \in DOMAIN tree : ~Under(c.src, tree[j])} |-> tree[i]]
       [] c.op = "copy"   ->
            ~IsPrefix(c.src, c.dst) =>
              /\ \A i \in DOMAIN tree : i \in DOMAIN records /\ records[i] = tree[i]
              /\ Values(records) = Values(tree) \cup copied
              /\ Cardinality(DOMAIN records) = Cardinality(DOMAIN tree) + Cardinality(copied)
       [] OTHER -> TRUE

DoneMeansDone ==
  [][\A c \in Call :
       Finish(c) /\ Alone(c) /\ Tidy(before[c]) => Effect(c)]_vars

(* What inventory.proto says of a directory without the recursive flag: it *)
(* is refused, as bash refuses it.  A refused call changes nothing.        *)
RefusalChangesNothing ==
  [][\A c \in Call : Running(c) /\ Alone(c) /\ rpc'[c] \in Refusal => records' = before[c]]_vars
=============================================================================
