----------------------------- MODULE AssetStore -----------------------------
(***************************************************************************)
(* One owner's assets: save_asset and delete_asset of api/assets.py with   *)
(* the plan limits of lib/limit_enforcement.py and the owner's storageUsed.*)
(*                                                                         *)
(* A request that creates reads the owner, counts the assets, inserts and  *)
(* then books the bytes, each in a database call of its own; one that      *)
(* updates reads, upserts and books; one that deletes looks the asset up,  *)
(* takes its bytes off and deletes it.  storageUsed is compared as it was  *)
(* read with the owner.  The plan stays the same; a file too large for it  *)
(* is refused before anything is written and left out.                     *)
(***************************************************************************)
EXTENDS Integers, FiniteSets, FiniteSetsExt

CONSTANTS
  Handlers,
  AssetLimit, StorageLimit,   \* of the owner's plan
  Sizes,                      \* of what is uploaded, 0 for a form without a file
  MaxSaves,                   \* bound: POST requests
  MaxStops                    \* bound: restarts of the API process

ASSUME StoreAssumption ==
  /\ IsFiniteSet(Handlers)
  /\ {AssetLimit, StorageLimit, MaxSaves, MaxStops} \subseteq Nat
  /\ AssetLimit > 0 /\ Sizes \subseteq Nat

Ids == 1 .. MaxSaves

VARIABLES
  stored,       \* the ids in the collection
  fileSize,     \* [Ids -> Nat]
  storageUsed,  \* of the owner's document
  doing,        \* [Handlers -> [step, id, bytes]]
  seen,         \* history: the ids the owner's pages have shown
  saves, stops,
  revived,      \* history: updates that inserted what had been deleted
  doubled,      \* history: two deletions of one file overlapped
  torn          \* history: a restart between an asset's write and its bytes'

storeVars == <<stored, fileSize, storageUsed, doing, seen, saves, stops, revived, doubled, torn>>
history == <<revived, doubled, torn>>

Free == [step |-> "free", id |-> 0, bytes |-> 0]

StoreInit ==
  /\ stored = {} /\ fileSize = [i \in Ids |-> 0] /\ storageUsed = 0
  /\ doing = [h \in Handlers |-> Free]
  /\ seen = {} /\ saves = 0 /\ stops = 0
  /\ revived = 0 /\ doubled = FALSE /\ torn = FALSE

At(h, step) == doing[h].step = step
GoTo(h, step) == doing' = [doing EXCEPT ![h] = [@ EXCEPT !.step = step]]
Done(h) == doing' = [doing EXCEPT ![h] = Free]

-----------------------------------------------------------------------------
(* POST /assets                                                            *)

\* check_storage_limit, on the owner as read.
FitsPlan(bytes) == bytes = 0 \/ storageUsed + bytes <= StorageLimit

\* The request begins with the owner's document; one with an id is an update.
SaveAsset(h) ==
  /\ At(h, "free")
  /\ saves < MaxSaves /\ saves' = saves + 1
  /\ \E b \in Sizes :
       /\ FitsPlan(b)
       /\ \/ doing' = [doing EXCEPT ![h] = [step |-> "count", id |-> saves + 1, bytes |-> b]]
          \/ \E i \in seen :
               doing' = [doing EXCEPT ![h] = [step |-> "update", id |-> i, bytes |-> b]]
  /\ UNCHANGED <<stored, fileSize, storageUsed, seen, stops, history>>

\* The comparison of check_asset_limit, off by one and as it is.
BelowLimitOrAt == Cardinality(stored) <= AssetLimit
BelowLimit == Cardinality(stored) < AssetLimit

CheckAssetLimit(h) ==
  /\ At(h, "count")
  /\ IF BelowLimit THEN GoTo(h, "insert") ELSE Done(h)
  /\ UNCHANGED <<stored, fileSize, storageUsed, seen, saves, stops, history>>

\* What follows the write of an asset: its bytes are booked, or (before) forgotten.
BookNothing(h) == Done(h)
BookNext(h) == IF doing[h].bytes > 0 THEN GoTo(h, "book") ELSE Done(h)

InsertAsset(h) ==
  /\ At(h, "insert")
  /\ stored' = stored \cup {doing[h].id}
  /\ seen' = seen \cup {doing[h].id}
  /\ fileSize' = [fileSize EXCEPT ![doing[h].id] = doing[h].bytes]
  /\ BookNext(h)
  /\ UNCHANGED <<storageUsed, saves, stops, history>>

\* update_one with upsert: the asset may be gone by now.
UpsertAsset(h) ==
  LET i == doing[h].id
  IN  /\ At(h, "update")
      /\ stored' = stored \cup {i}
      /\ revived' = IF i \in stored THEN revived ELSE revived + 1
      /\ fileSize' = [fileSize EXCEPT ![i] = IF doing[h].bytes > 0 THEN doing[h].bytes ELSE @]
      /\ BookNext(h)
      /\ UNCHANGED <<storageUsed, seen, saves, stops, doubled, torn>>

BookBytes(h) ==
  /\ At(h, "book")
  /\ storageUsed' = storageUsed + doing[h].bytes
  /\ Done(h)
  /\ UNCHANGED <<stored, fileSize, seen, saves, stops, history>>

-----------------------------------------------------------------------------
(* DELETE /assets/{id}                                                     *)

\* Another deletion of file i is under way.
Deleting(i) == \E h \in Handlers : /\ doing[h].step \in {"unbook", "delete"}
                                   /\ doing[h].id = i /\ doing[h].bytes > 0

FindAsset(h, i) ==
  /\ At(h, "free") /\ i \in seen
  /\ LET bytes == IF i \in stored THEN fileSize[i] ELSE 0
     IN  /\ doing' = [doing EXCEPT ![h] = [step |-> IF bytes > 0 THEN "unbook" ELSE "delete",
                                           id |-> i, bytes |-> bytes]]
         /\ doubled' = (doubled \/ (bytes > 0 /\ Deleting(i)))
  /\ UNCHANGED <<stored, fileSize, storageUsed, seen, saves, stops, revived, torn>>

UnbookBytes(h) ==
  /\ At(h, "unbook")
  /\ storageUsed' = storageUsed - doing[h].bytes
  /\ GoTo(h, "delete")
  /\ UNCHANGED <<stored, fileSize, seen, saves, stops, history>>

DeleteAsset(h) ==
  /\ At(h, "delete")
  /\ stored' = stored \ {doing[h].id}
  /\ fileSize' = [fileSize EXCEPT ![doing[h].id] = 0]
  /\ Done(h)
  /\ UNCHANGED <<storageUsed, seen, saves, stops, history>>

-----------------------------------------------------------------------------
\* The API process restarts; the requests under way are lost.
RestartApi ==
  /\ stops < MaxStops /\ stops' = stops + 1
  /\ torn' = (torn \/ \E h \in Handlers : At(h, "book") \/ (At(h, "delete") /\ doing[h].bytes > 0))
  /\ doing' = [h \in Handlers |-> Free]
  /\ UNCHANGED <<stored, fileSize, storageUsed, seen, saves, revived, doubled>>

SaveStep(h) ==
  SaveAsset(h) \/ CheckAssetLimit(h) \/ InsertAsset(h) \/ UpsertAsset(h) \/ BookBytes(h)
DeleteStep(h) == (\E i \in Ids : FindAsset(h, i)) \/ UnbookBytes(h) \/ DeleteAsset(h)

StoreNext == (\E h \in Handlers : SaveStep(h) \/ DeleteStep(h)) \/ RestartApi

StoreSpec == StoreInit /\ [][StoreNext]_storeVars

-----------------------------------------------------------------------------
(* Properties                                                              *)

\* The collection and the requests under way keep their shape.
StoreTypeOK ==
  /\ stored \subseteq Ids /\ seen \subseteq Ids /\ fileSize \in [Ids -> Nat]
  /\ storageUsed \in Int
  /\ doing \in [Handlers -> [step : {"free", "count", "insert", "update", "book", "unbook",
                                     "delete"},
                             id : 0 .. MaxSaves, bytes : Nat]]
  /\ \A h \in Handlers : ~At(h, "free") => doing[h].id \in Ids
  /\ saves \in 0 .. MaxSaves /\ stops \in 0 .. MaxStops /\ revived \in Nat
  /\ {doubled, torn} \subseteq BOOLEAN

\* lib/limit_enforcement.py announces that "every check uses atomic MongoDB operations to
\* prevent TOCTOU race conditions from concurrent requests".  What parallel creations leave of
\* it: the limit is overrun by no more than the requests that run at once, and by the assets
\* that updates brought back after their deletion.
OverrunBounded == Cardinality(stored) <= AssetLimit - 1 + Cardinality(Handlers) + revived

\* Between requests the owner is charged for every byte that is kept, unless two deletions
\* of one file overlapped or a restart separated an asset from its bytes.
BytesCharged ==
  (\A h \in Handlers : At(h, "free")) /\ ~doubled /\ ~torn =>
    MapThenSumSet(LAMBDA i : fileSize[i], stored) <= storageUsed
=============================================================================
