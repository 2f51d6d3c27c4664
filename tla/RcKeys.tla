---------------------------------- MODULE RcKeys ----------------------------------
(***************************************************************************)
(* The key inventory of the RC app (MsdkKeyManagerRuntime) and the part of *)
(* DjiSdkRuntime that drives it.  Two threads run it: the main thread,     *)
(* which starts the runtime once the MSDK is registered, and the thread on *)
(* which the MSDK calls back.  DjiSdkRuntime.update reads the snapshot and *)
(* then writes it, without a lock, so either thread may write over what    *)
(* the other has written since.                                            *)
(***************************************************************************)
EXTENDS RcUi

CONSTANT Inventory  \* the keys that can be read and listened to, in their order

ASSUME InventoryAssumption == Inventory \in Seq(STRING)

VARIABLES
  sdk,      \* DjiSdkSnapshot
  runtime,  \* [due: is initializeRuntimeComponents posted, product: what the MSDK has last
            \*  called back of it, revived: see UpdateWrites]
  keys,     \* MsdkKeyManagerRuntime: started, the status of each descriptor
  heard,    \* keys the KeyManager has a listener of this object for
  probes,   \* keys with a getValue that has not been answered
  threads   \* how far each thread is in what it runs

keysVars == <<sdk, runtime, keys, heard, probes, threads>>

Keys == {Inventory[i] : i \in 1 .. Len(Inventory)}
Threads == {"main", "msdk"}
FreshSdk == [registered |-> FALSE, ready |-> FALSE, connected |-> FALSE]
Idle == [at |-> "idle", event |-> "none", copy |-> FreshSdk, todo |-> <<>>, connected |-> FALSE, after |-> "idle"]

KeysInit ==
  /\ sdk = FreshSdk
  /\ runtime = [due |-> FALSE, product |-> FALSE, revived |-> FALSE]
  /\ keys = [started |-> FALSE, status |-> [k \in Keys |-> "none"]]
  /\ heard = {} /\ probes = {}
  /\ threads = [t \in Threads |-> Idle]

At(t, place) == threads[t].at = place
Goto(t, place) == threads' = [threads EXCEPT ![t].at = place]
WillRefresh(t, after) == threads' = [threads EXCEPT ![t].at = "refresh", ![t].after = after]
Finish(t) == threads' = [threads EXCEPT ![t] = Idle]

\* update reads the snapshot ...
UpdateReads(t, event) == threads' = [threads EXCEPT ![t].at = "write", ![t].event = event, ![t].copy = sdk]

\* ... and writes it with the change that the event makes.
Written(event, copy) ==
  CASE event = "registered" -> [copy EXCEPT !.registered = TRUE, !.ready = FALSE]
    [] event = "unregistered" -> [copy EXCEPT !.registered = FALSE, !.ready = FALSE]
    [] event = "connected" -> [copy EXCEPT !.connected = TRUE]
    [] event = "disconnected" -> [copy EXCEPT !.connected = FALSE]
    [] event = "ready" -> [copy EXCEPT !.ready = TRUE]
    [] event = "failed" -> [copy EXCEPT !.ready = FALSE]
    [] OTHER -> copy

\* The write, and what follows it: onRegisterSuccess posts the start of the components,
\* the product's callbacks ask whether the runtime is ready, initializeRuntimeComponents
\* looks at the product.  revived: the write has kept a "ready" that it had read before
\* the other thread's last write.
UpdateWrites(t) ==
  LET event == threads[t].event
      copy == threads[t].copy
  IN /\ At(t, "write")
     /\ sdk' = Written(event, copy)
     /\ runtime' = [runtime EXCEPT !.due = @ \/ event = "registered",
                                   !.revived = @ \/ (copy # sdk /\ copy.ready /\ event # "ready" /\ sdk'.ready)]
     /\ CASE event \in {"connected", "disconnected"} -> Goto(t, "ready?")
          [] event = "ready" -> Goto(t, "ready")
          [] OTHER -> Finish(t)
     /\ UNCHANGED <<keys, heard, probes, uiVars>>

\* runtimeConnected
RuntimeConnected == sdk.registered /\ sdk.connected

\* A callback of the MSDK.  "unregistered": the registration, or registerApp itself, has
\* failed; "changed": another product, or the progress of the initialization.
Callback(event) ==
  /\ Spend("product") /\ At("msdk", "idle")
  /\ event = "connected" => ~runtime.product
  /\ event = "disconnected" => runtime.product
  /\ runtime' = [runtime EXCEPT !.product = (@ \/ event = "connected") /\ event # "disconnected"]
  /\ UpdateReads("msdk", event)
  /\ UNCHANGED <<sdk, keys, heard, probes, posted>>

CallbackEvents == {"registered", "unregistered", "connected", "disconnected", "changed"}

\* initializeRuntimeComponents up to MsdkKeyManagerRuntime.start
Initialize ==
  /\ runtime.due /\ At("main", "idle")
  /\ runtime' = [runtime EXCEPT !.due = FALSE]
  /\ IF sdk.ready \/ ~sdk.registered THEN UNCHANGED <<keys, threads>>
     ELSE IF keys.started THEN Goto("main", "components") /\ UNCHANGED keys
     ELSE WillRefresh("main", "components") /\ keys' = [keys EXCEPT !.started = TRUE]
  /\ UNCHANGED <<sdk, heard, probes, uiVars>>

\* The components have started: runtimeReady is published before the product is looked at.
RuntimeReady ==
  /\ At("main", "components")
  /\ UpdateReads("main", "ready")
  /\ UNCHANGED <<sdk, runtime, keys, heard, probes, uiVars>>

\* Mutant of OnceReady: the keys have been started already.
OnceStarted == Finish("main")

\* Where initializeRuntimeComponents goes on once the runtime is ready.
OnceReady == IF sdk.connected THEN WillRefresh("main", "idle") ELSE Finish("main")

LookAtProduct ==
  /\ At("main", "ready")
  /\ OnceReady
  /\ UNCHANGED <<sdk, runtime, keys, heard, probes, uiVars>>

\* onProductConnect, onProductDisconnect: the handler runs if the runtime is ready, and
\* whether the product is connected is what the callback said, not the snapshot.
ProductHandled ==
  /\ At("msdk", "ready?")
  /\ IF ~sdk.ready THEN Finish("msdk") /\ UNCHANGED <<keys, heard>>
     ELSE IF threads["msdk"].event = "connected"
     THEN WillRefresh("msdk", "idle") /\ keys' = [keys EXCEPT !.started = TRUE] /\ UNCHANGED heard
     ELSE /\ heard' = {}
          /\ keys' = [keys EXCEPT !.status = [k \in Keys |-> IF @[k] = "none" THEN "none" ELSE "disconnected"]]
          /\ threads' = [threads EXCEPT !["msdk"].at = "observe", !["msdk"].todo = <<>>, !["msdk"].after = "idle"]
  /\ UNCHANGED <<sdk, runtime, probes, uiVars>>

\* recordRuntimeFailure: a component, a refresh or tryResume has thrown, and the rest of
\* the handler is left undone.
HandlerFails(t) ==
  /\ Spend("product")
  /\ threads[t].at \in {"components", "ready", "refresh", "observe"}
  /\ UpdateReads(t, "failed")
  /\ UNCHANGED <<sdk, runtime, keys, heard, probes, posted>>

\* refresh: cancelListen and clear, then observe each key.
Refreshed(t) ==
  /\ At(t, "refresh")
  /\ heard' = {}
  /\ keys' = [keys EXCEPT !.status = [k \in Keys |-> "none"]]
  /\ runtime' = [runtime EXCEPT !.revived = FALSE]
  /\ threads' = [threads EXCEPT ![t].at = "observe", ![t].todo = Inventory]
  /\ UNCHANGED <<sdk, probes, uiVars>>

\* observe reads whether the runtime is connected ...
Looked(t) ==
  /\ At(t, "observe") /\ threads[t].todo # <<>>
  /\ threads' = [threads EXCEPT ![t].at = "upsert", ![t].connected = RuntimeConnected]
  /\ UNCHANGED <<sdk, runtime, keys, heard, probes, uiVars>>

\* ... and with what it has read enters the key, asks for its value and listens to it.
Observed(t) ==
  /\ At(t, "upsert")
  /\ LET k == Head(threads[t].todo)
         connected == threads[t].connected
     IN /\ keys' = [keys EXCEPT !.status[k] = IF connected THEN "waiting" ELSE "disconnected"]
        /\ heard' = IF connected THEN heard \cup {k} ELSE heard
        /\ probes' = IF connected THEN probes \cup {k} ELSE probes
  /\ threads' = [threads EXCEPT ![t].at = "observe", ![t].todo = Tail(@)]
  /\ UNCHANGED <<sdk, runtime, uiVars>>

\* start goes on to the rest of initializeRuntimeComponents; the product's handlers are
\* the end of what calls them.
RefreshEnds(t) ==
  /\ At(t, "observe") /\ threads[t].todo = <<>>
  /\ threads' = [threads EXCEPT ![t] = [Idle EXCEPT !.at = threads[t].after]]
  /\ UNCHANGED <<sdk, runtime, keys, heard, probes, uiVars>>

\* markSupported, markFailure: a descriptor that is gone stays gone.
Mark(k, status) == keys' = [keys EXCEPT !.status[k] = IF @ = "none" THEN "none" ELSE status]

\* classifyFailure
Failure == IF RuntimeConnected THEN "failed" ELSE "disconnected"

\* getValue answers, also after the listeners were cancelled.
Probed(k) ==
  /\ k \in probes /\ Spend("answers")
  /\ probes' = probes \ {k}
  /\ Mark(k, "supported") \/ Mark(k, Failure)
  /\ UNCHANGED <<sdk, runtime, heard, threads, posted>>

\* A listened value changes.
ValueHeard(k) ==
  /\ k \in heard /\ Spend("answers")
  /\ Mark(k, "supported")
  /\ UNCHANGED <<sdk, runtime, heard, probes, threads, posted>>

ThreadStep(t) == UpdateWrites(t) \/ HandlerFails(t) \/ Refreshed(t) \/ Looked(t) \/ Observed(t) \/ RefreshEnds(t)

KeysStep ==
  \/ (\E event \in CallbackEvents : Callback(event)) \/ ProductHandled
  \/ Initialize \/ RuntimeReady \/ LookAtProduct
  \/ \E t \in Threads : ThreadStep(t)
  \/ \E k \in Keys : Probed(k) \/ ValueHeard(k)

-----------------------------------------------------------------------------

\* While the product is connected and the snapshot says so of a ready runtime, every key
\* is listened to as soon as both threads are done, in whatever order registration,
\* connection, failures and the two halves of the threads' updates came: an update that
\* is lost leaves the snapshot not ready or not connected, or is followed by a refresh
\* (DjiSdkRuntime 76-115, 166-193 and 231-237, MsdkKeyManagerRuntime.refresh and
\* observe).  The exception is a ready runtime that a callback has written back over the
\* report of a failure, until the next refresh.
ConnectedIsHeard ==
  runtime.product /\ sdk.ready /\ RuntimeConnected /\ (\A t \in Threads : At(t, "idle"))
    => heard = Keys \/ runtime.revived

===============================================================================
