------------------------------ MODULE MediaIngest ------------------------------
(***************************************************************************)
(* Media assets: the routes that take one asset (dji-m3m) or a batch of    *)
(* them, MediaStore's table, and MediaOverlayRegistry, which serves the    *)
(* overlay from memory and is filled from the table at the start.          *)
(*                                                                         *)
(* A request awaits the store and then updates the registry.  Requests     *)
(* overlap, a transaction may fail before or after it was committed, and   *)
(* the process may end at any moment, while the database goes on.          *)
(***************************************************************************)
EXTENDS Budget

CONSTANTS
  Assets,      \* asset ids
  Placed,      \* those with a position and a layer
  MaxIngests   \* bound: requests in one behaviour

ASSUME IngestAssumption == Placed \subseteq Assets /\ MaxIngests \in Nat

VARIABLES
  ingests,  \* every request, in order; the number of a request is what it writes
  stored,   \* the table media_assets: the request that wrote each row, or 0
  served,   \* MediaOverlayRegistry, likewise
  running   \* "yes", "blind" (its rehydration failed) or "no"

ingestVars == <<ingests, stored, served, running>>

None == [a \in Assets |-> 0]

IngestInit == ingests = <<>> /\ stored = None /\ served = None /\ running = "yes"

\* Requests whose transaction may still take effect.
InStore(i) == ingests[i].at \in {"storing", "orphaned"}
Underway(i) == ingests[i].at \in {"storing", "orphaned", "committed"}

Put(f, i) == [a \in Assets |-> IF a \in ingests[i].assets THEN i ELSE f[a]]
Goes(i, at) == ingests' = [ingests EXCEPT ![i].at = at]

\* POST /internal/media/dji-m3m and /internal/media/assets, up to the await of the
\* store.  "alone" notes that no other request was writing one of the assets.
Ingest(assets) ==
  /\ running # "no" /\ Spend("ingest") /\ Len(ingests) < MaxIngests
  /\ ingests' = Append(ingests,
       [assets |-> assets, at |-> "storing",
        alone |-> {a \in assets : \A i \in 1 .. Len(ingests) : a \in ingests[i].assets => ~Underway(i)}])
  /\ UNCHANGED <<stored, served, running>>

\* upsertMany: the rows of a batch are committed together.
Commits(i) ==
  /\ InStore(i)
  /\ stored' = Put(stored, i)
  /\ Goes(i, IF ingests[i].at = "storing" THEN "committed" ELSE "failed")
  /\ UNCHANGED <<served, running, left>>

\* The transaction is rolled back, and the route answers 400.
RolledBack(i) ==
  /\ InStore(i) /\ Goes(i, "failed")
  /\ UNCHANGED <<stored, served, running, left>>

\* The connection is lost after the commit: the route answers 400 as well.
AnswerLost(i) ==
  /\ ingests[i].at = "committed" /\ Spend("ingest") /\ Goes(i, "failed")
  /\ UNCHANGED <<stored, served, running>>

\* Mutant of MayServe: the store is not awaited.
MayServeAtOnce(i) == ingests[i].at \in {"storing", "committed"}

\* The routes go on when the store has answered.
MayServe(i) == ingests[i].at = "committed"

\* mediaOverlays.upsert of each asset, and the answer 200.
Served(i) ==
  /\ MayServe(i)
  /\ served' = Put(served, i) /\ Goes(i, "done")
  /\ UNCHANGED <<stored, running, left>>

\* What had been committed stays; what had not may still be, without anybody waiting.
IngestCrash ==
  /\ running # "no" /\ Spend("ingest")
  /\ running' = "no" /\ served' = None
  /\ ingests' = [i \in DOMAIN ingests |->
       [ingests[i] EXCEPT !.at = CASE @ = "storing" -> "orphaned" [] @ = "committed" -> "failed" [] OTHER -> @]]
  /\ UNCHANGED stored

\* The start awaits list, and goes on without when it fails.
Rehydrate ==
  /\ running = "no"
  /\ \/ running' = "yes" /\ served' = stored /\ UNCHANGED left
     \/ running' = "blind" /\ served' = None /\ Spend("ingest")
  /\ UNCHANGED <<ingests, stored>>

\* GET /api/media/overlays
Overlay == {a \in Placed : served[a] # 0}

IngestStep ==
  \/ \E assets \in SUBSET Assets \ {{}} : Ingest(assets)
  \/ \E i \in DOMAIN ingests : Commits(i) \/ RolledBack(i) \/ AnswerLost(i) \/ Served(i)
  \/ IngestCrash \/ Rehydrate

-----------------------------------------------------------------------------

\* No other request could have written the asset at the same time or later.
Uncontested(i, a) ==
  /\ a \in ingests[i].alone
  /\ \A j \in DOMAIN ingests : j > i => a \notin ingests[j].assets

\* The overlay never shows what a restart would take away: each asset it shows is
\* in the table.  And an acknowledged asset that nobody else wrote is in the table as
\* it was sent, and in the overlay, also after a restart unless its rehydration failed.
\* (the ingest routes, MediaStore.upsertMany and the rehydration in index.ts)
ServedIsStored ==
  /\ \A a \in Overlay : stored[a] # 0
  /\ \A i \in DOMAIN ingests : \A a \in ingests[i].assets :
       ingests[i].at = "done" /\ Uncontested(i, a) =>
         /\ stored[a] = i
         /\ served[a] = i \/ running # "yes"

===============================================================================
