---------------------------- MODULE MapAdapters ----------------------------
(***************************************************************************)
(* The life of the web maps: the shared loader of the Google Maps script,  *)
(* the factory that falls back to OpenStreetMap, and the registries that   *)
(* destroy a page's maps when Livewire navigates away from it.             *)
(*                                                                         *)
(* One JavaScript context lives through all the page visits.  A visit puts *)
(* one map canvas on the page; its number names the canvas.  Everything up *)
(* to the next await runs in one step: when the loader's promise settles,  *)
(* every creation that waits for it continues in that same step.           *)
(***************************************************************************)
EXTENDS Naturals

CONSTANTS
    MaxVisits,      \* bound: page visits in one JavaScript context
    Configurations  \* the settings a page may carry, a set of Configuration

\* The page's surface decides what the map is for.  The form of an "unbound"
\* location picker has no coordinate fields.
Kind == {"home", "finder", "portal", "picker", "unbound", "detail"}

\* provider: what the page asks for; key: the Google browser key is present;
\* tiles: the tile template and its attribution are present.
Configuration ==
    [kind: Kind, provider: {"google", "openstreetmap"}, key: BOOLEAN, tiles: BOOLEAN]

ASSUME MapAssumption ==
    /\ MaxVisits \in Nat
    /\ Configurations \subseteq Configuration

Canvas == 1..MaxVisits
NoPage == 0

VARIABLES
    visits,    \* page visits so far
    page,      \* the canvas in the document, NoPage between two pages
    config,    \* the configuration each canvas was booted with
    sdk,       \* window.google.maps is defined
    promise,   \* googleLoaderPromise: "none", "pending", "ready" or "rejected"
    scripts,   \* script requests of the browser: "current" still has its
               \* callback, "late" timed out and was removed from the page
    stage,     \* what the canvas's creation has come to
    maps,      \* the providers that hold a live map object on the canvas
    registry   \* canvases whose surface is registered for destruction

adapterVars == <<visits, page, config, sdk, promise, scripts, stage, maps, registry>>

NoConfiguration == [kind |-> "none"]

AdapterTypeOK ==
    /\ visits \in 0..MaxVisits
    /\ page \in {NoPage, visits}
    /\ config \in [Canvas -> Configurations \cup {NoConfiguration}]
    /\ sdk \in BOOLEAN
    /\ promise \in {"none", "pending", "ready", "rejected"}
    /\ scripts \subseteq {"current", "late"}
    /\ stage \in [Canvas -> {"absent", "loading", "ready", "failed", "destroyed"}]
    /\ maps \in [Canvas -> SUBSET {"google", "openstreetmap"}]
    /\ registry \subseteq Canvas

AdapterInit ==
    /\ visits = 0
    /\ page = NoPage
    /\ config = [c \in Canvas |-> NoConfiguration]
    /\ sdk = FALSE
    /\ promise = "none"
    /\ scripts = {}
    /\ stage = [c \in Canvas |-> "absent"]
    /\ maps = [c \in Canvas |-> {}]
    /\ registry = {}

-----------------------------------------------------------------------------
\* A bug: the map survives the destruction of its provider.
KeepGoogle(built) == built

\* What destroy leaves of the maps on a canvas.
DestroyGoogle(built) == built \ {"google"}
DestroyOpenStreetMap(built) == built \ {"openstreetmap"}

\* How an attempt of the factory ends.  OpenStreetMap is created in one go, on
\* a canvas of the document (shown) and with its tiles configured.
OpenStreetMap(shown, conf) == IF shown /\ conf.tiles THEN {"openstreetmap"} ELSE {}

\* The Google constructor may throw; what it built is destroyed and the factory
\* tries OpenStreetMap once.
Google(broken, shown, conf) ==
    IF broken THEN DestroyGoogle({"google"}) \cup OpenStreetMap(shown, conf) ELSE {"google"}

StageOf(built) == IF built = {} THEN "failed" ELSE "ready"

\* The portal registers its map when the creation is over, the other surfaces
\* when they boot.
RegistersLate(conf) == conf.kind = "portal"

Waiting == {c \in Canvas : stage[c] = "loading"}

\* Whether the factory's first attempt has to wait for the Google script.
AwaitsScript(conf) == conf.kind # "unbound" /\ conf.provider = "google" /\ ~sdk /\ conf.key

\* What a creation that need not wait builds at once.
BuiltAtOnce(broken, conf) ==
    CASE conf.kind = "unbound" -> {}
      [] conf.provider = "google" /\ sdk -> Google(broken, TRUE, conf)
      [] OTHER -> OpenStreetMap(TRUE, conf)

\* livewire:navigated: the surface of the new page boots.  A creation that
\* waits shares the promise of a load that is under way or starts a new one.
Arrive(conf) ==
    LET c == visits + 1 IN
    /\ page = NoPage /\ visits < MaxVisits
    /\ visits' = c /\ page' = c
    /\ config' = [config EXCEPT ![c] = conf]
    /\ \/ /\ AwaitsScript(conf)
          /\ stage' = [stage EXCEPT ![c] = "loading"]
          /\ promise' = IF promise = "none" THEN "pending" ELSE promise
          /\ scripts' = IF promise = "none" THEN scripts \cup {"current"} ELSE scripts
          /\ registry' = IF RegistersLate(conf) THEN registry ELSE registry \cup {c}
          /\ UNCHANGED maps
       \/ /\ ~AwaitsScript(conf)
          /\ \E broken \in BOOLEAN :
                /\ maps' = [maps EXCEPT ![c] = BuiltAtOnce(broken, conf)]
                /\ stage' = [stage EXCEPT ![c] = StageOf(BuiltAtOnce(broken, conf))]
          /\ registry' = registry \cup {c}
          /\ UNCHANGED <<promise, scripts>>
    /\ UNCHANGED sdk

\* livewire:navigating: every registered surface destroys the map it holds and
\* forgets the canvas; a creation that waits goes on for the page that is gone.
Leave ==
    /\ page # NoPage
    /\ page' = NoPage
    /\ maps' = [c \in Canvas |->
                   IF c \in registry /\ stage[c] = "ready"
                   THEN DestroyGoogle(DestroyOpenStreetMap(maps[c])) ELSE maps[c]]
    /\ stage' = [c \in Canvas |->
                   IF c \in registry /\ stage[c] # "loading" THEN "destroyed" ELSE stage[c]]
    /\ registry' = {}
    /\ UNCHANGED <<visits, config, sdk, promise, scripts>>

\* Every creation that waited continues: with Google when the script is there,
\* except those whose constructor throws, and else with OpenStreetMap.
Continue(broken) ==
    LET Built(c) == Google(c \in broken, c = page, config[c]) IN
    /\ maps' = [c \in Canvas |-> IF c \in Waiting THEN Built(c) ELSE maps[c]]
    /\ stage' = [c \in Canvas |-> IF c \in Waiting THEN StageOf(Built(c)) ELSE stage[c]]
    /\ registry' = registry \cup {c \in Waiting : RegistersLate(config[c])}
    /\ UNCHANGED <<visits, page, config>>

\* The callback in the script's address: the promise resolves and stays so.
ScriptLoads ==
    /\ "current" \in scripts
    /\ sdk' = TRUE
    /\ promise' = "ready"
    /\ scripts' = scripts \ {"current"}
    /\ \E broken \in SUBSET Waiting : Continue(broken)

\* A bug: the loader's failure leaves the rejected promise in place.
KeepRejected ==
    /\ "current" \in scripts
    /\ promise' = "rejected"
    /\ scripts' = scripts \ {"current"}
    /\ Continue(Waiting)
    /\ UNCHANGED sdk

\* script.onerror: the promise is dropped, so that a later creation tries anew,
\* and rejected.
ScriptFails ==
    /\ "current" \in scripts
    /\ promise' = "none"
    /\ scripts' = scripts \ {"current"}
    /\ Continue(Waiting)
    /\ UNCHANGED sdk

\* A bug: the timer forgets the promise but does not reject it.
SilentTimeOut ==
    /\ "current" \in scripts
    /\ promise' = "none"
    /\ scripts' = {"late"}
    /\ UNCHANGED <<visits, page, config, sdk, stage, maps, registry>>

\* The loader's timer of 12 s: as above, but the browser may still run the
\* script that was removed.
ScriptTimesOut ==
    /\ "current" \in scripts
    /\ promise' = "none"
    /\ scripts' = {"late"}
    /\ Continue(Waiting)
    /\ UNCHANGED sdk

\* A script that timed out arrives after all, or never: its callback is gone.
LateScript ==
    /\ "late" \in scripts
    /\ scripts' = scripts \ {"late"}
    /\ sdk' \in {sdk, TRUE}
    /\ UNCHANGED <<visits, page, config, promise, stage, maps, registry>>

AdapterNext ==
    \/ \E conf \in Configurations : Arrive(conf)
    \/ Leave
    \/ ScriptLoads \/ ScriptFails \/ ScriptTimesOut \/ LateScript

\* Only the loader's timer is sure to fire.
AdapterSpec == AdapterInit /\ [][AdapterNext]_adapterVars /\ WF_adapterVars(ScriptTimesOut)

-----------------------------------------------------------------------------
\* The loader that all creations share never strands one of them: a creation
\* waits only while the script is on its way with its callback and its timer,
\* and a load that failed is forgotten, so that the next page tries again.
LoaderSound ==
    /\ promise = "pending" <=> "current" \in scripts
    /\ Waiting # {} => promise = "pending"
    /\ promise # "rejected"
    /\ promise = "ready" => sdk

\* No map object is lost: a canvas holds one map exactly when its creation
\* succeeded, whatever attempt failed before, and that map is registered for
\* the next navigation.  The exception is a Google map whose page was left
\* while the script was loading.
MapsAccounted ==
    \A c \in Canvas :
        /\ (\E p \in maps[c] : maps[c] = {p}) <=> stage[c] = "ready"
        /\ maps[c] # {} =>
              \/ c \in registry
              \/ c # page /\ maps[c] = {"google"} /\ ~RegistersLate(config[c])

\* Livewire navigation destroys the maps of the page it leaves
\* (docs/maps/MAP-ARCHITECTURE.md): a map is live on the current page only.
NoMapOutlivesPage == \A c \in Canvas : maps[c] # {} => c = page

\* Whatever the network does to the script, a creation that waits for it comes
\* to an end: a map, its fallback or the notice that there is none.
CreationSettles == \A c \in Canvas : stage[c] = "loading" ~> stage[c] # "loading"
=============================================================================
