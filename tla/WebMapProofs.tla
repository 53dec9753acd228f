---------------------------- MODULE WebMapProofs ----------------------------
(***************************************************************************)
(* Theorems about WebMaps, for any stations, forms, viewports, coordinates *)
(* and page settings and any number of page visits: its pages run the maps *)
(* as MapAdapters specifies, the loader strands no creation, no map object *)
(* is lost, the finder's list answers its form, and the marker of a picker *)
(* stands where its fields say.                                            *)
(***************************************************************************)
EXTENDS WebMaps, TLAPS

\* The assumptions on constants.
LEMMA Constants ==
  /\ MaxVisits \in Nat
  /\ Configurations \subseteq Configuration
  /\ Located \subseteq Station
  /\ NoView \notin View
  /\ NoKey \notin Key /\ Nearby \notin Key /\ NoKey # Nearby
  /\ Form # {}
  /\ Zero \in Coordinate /\ Empty \notin Coordinate /\ Bad \notin Coordinate
  /\ NoPin \notin Position /\ Centre \notin Position
  BY MapAssumption, MarkerAssumption, FinderAssumption, PickerAssumption

-----------------------------------------------------------------------------
\* Every step of a page is a step of the adapters, or none.
LEMMA AdapterStep == [Next]_vars => [AdapterNext]_adapterVars
<1> SUFFICES ASSUME [Next]_vars PROVE [AdapterNext]_adapterVars
  OBVIOUS
<1>1. ASSUME NEW conf \in Configurations,
             VisitFinder(conf) \/ VisitPortal(conf) \/ VisitPicker(conf) \/ VisitDetail(conf)
      PROVE  AdapterNext
  BY <1>1 DEF VisitFinder, VisitPortal, VisitPicker, VisitDetail, AdapterNext
<1>2. CASE Navigate \/ LoadScript \/ FailScript \/ TimeOutScript \/ RunLateScript
  BY <1>2 DEF Navigate, LoadScript, FailScript, TimeOutScript, RunLateScript, AdapterNext
<1>3. CASE PageStep
  BY <1>3 DEF PageStep, FinderStep, RequestSucceeds, FilterPortal, SelectInFinder,
              ShowDetails, TypeField, PlacePin
<1>4. CASE UNCHANGED vars
  BY <1>4 DEF vars
<1> QED
  BY <1>1, <1>2, <1>3, <1>4 DEF Next

\* The pages start where the adapters start.
LEMMA AdapterStart == Init => AdapterInit
  BY DEF Init

\* Whatever the pages do with their maps, they create and destroy them as the
\* adapters allow.
THEOREM ImplementsAdapters == Spec => AdapterInit /\ [][AdapterNext]_adapterVars
  BY AdapterStart, AdapterStep, PTL DEF Spec

-----------------------------------------------------------------------------
\* The columns of the adapters that the loader depends on.
LoaderTyped ==
  /\ visits \in Nat
  /\ scripts \subseteq {"current", "late"}
  /\ stage \in [Canvas -> {"absent", "loading", "ready", "failed", "destroyed"}]

\* A loader that is ready has its script.
LoaderReady == promise = "ready" => sdk

\* LoaderSound, canvas by canvas.
LoaderInv ==
  /\ LoaderTyped
  /\ promise = "pending" <=> "current" \in scripts
  /\ \A c \in Canvas : stage[c] = "loading" => promise = "pending"
  /\ promise \in {"none", "pending", "ready"}

\* A settled creation leaves none that waits.
LEMMA Settled ==
  ASSUME LoaderTyped, NEW broken, Continue(broken)
  PROVE  /\ \A c \in Canvas : stage'[c] # "loading"
         /\ stage' \in [Canvas -> {"absent", "loading", "ready", "failed", "destroyed"}]
         /\ visits' = visits
<1>1. \A built : StageOf(built) \in {"ready", "failed"}
  BY DEF StageOf
<1> QED
  BY <1>1 DEF Continue, LoaderTyped, Waiting

\* The script is never unloaded.
LEMMA ReadyStep == LoaderReady /\ [AdapterNext]_adapterVars => LoaderReady'
<1> SUFFICES ASSUME LoaderReady, [AdapterNext]_adapterVars PROVE LoaderReady'
  OBVIOUS
<1> USE DEF LoaderReady
<1>1. ASSUME NEW conf \in Configurations, Arrive(conf) PROVE LoaderReady'
  <2>1. promise' = "ready" => promise = "ready"
    BY <1>1 DEF Arrive
  <2>2. sdk' = sdk
    BY <1>1 DEF Arrive
  <2> QED
    BY <2>1, <2>2, Zenon
<1>2. CASE Leave \/ UNCHANGED adapterVars
  <2>1. promise' = promise
    BY <1>2 DEF Leave, adapterVars
  <2>2. sdk' = sdk
    BY <1>2 DEF Leave, adapterVars
  <2> QED
    BY <2>1, <2>2, Zenon
<1>3. CASE ScriptLoads
  BY <1>3, Zenon DEF ScriptLoads
<1>4. CASE ScriptFails \/ ScriptTimesOut
  BY <1>4 DEF ScriptFails, ScriptTimesOut
<1>5. CASE LateScript
  <2>1. promise' = promise
    BY <1>5 DEF LateScript
  <2>2. sdk' = sdk \/ sdk' = TRUE
    BY <1>5 DEF LateScript
  <2> QED
    BY <2>1, <2>2, Zenon
<1> QED
  BY <1>1, <1>2, <1>3, <1>4, <1>5 DEF AdapterNext

\* Loads, failures and time-outs of the script strand no creation.
LEMMA LoaderStep ==
  LoaderInv /\ LoaderReady /\ [AdapterNext]_adapterVars => LoaderInv'
<1> SUFFICES ASSUME LoaderInv, LoaderReady, [AdapterNext]_adapterVars PROVE LoaderInv'
  OBVIOUS
<1> USE DEF LoaderInv, LoaderTyped
<1>1. ASSUME NEW conf \in Configurations, Arrive(conf) PROVE LoaderInv'
  <2>0. visits' = visits + 1
    BY <1>1 DEF Arrive
  <2>1. CASE AwaitsScript(conf)
    <3>1. /\ stage' = [stage EXCEPT ![visits + 1] = "loading"]
          /\ promise' = IF promise = "none" THEN "pending" ELSE promise
          /\ scripts' = IF promise = "none" THEN scripts \cup {"current"} ELSE scripts
      BY <1>1, <2>1 DEF Arrive
    <3>2. promise # "ready"
      BY <2>1, Zenon DEF LoaderReady, AwaitsScript
    <3>3. promise' = "pending" /\ "current" \in scripts'
      BY <3>1, <3>2
    <3>4. scripts' \subseteq {"current", "late"}
      BY <3>1
    <3>5. stage' \in [Canvas -> {"absent", "loading", "ready", "failed", "destroyed"}]
      BY <3>1
    <3> QED
      BY <2>0, <3>3, <3>4, <3>5
  <2>2. CASE ~AwaitsScript(conf)
    <3>1. PICK broken \in BOOLEAN :
             stage' = [stage EXCEPT ![visits + 1] = StageOf(BuiltAtOnce(broken, conf))]
      BY <1>1, <2>2 DEF Arrive
    <3>2. StageOf(BuiltAtOnce(broken, conf)) \in {"ready", "failed"}
      BY DEF StageOf
    <3>3. promise' = promise /\ scripts' = scripts
      BY <1>1, <2>2 DEF Arrive
    <3>4. stage' \in [Canvas -> {"absent", "loading", "ready", "failed", "destroyed"}]
      BY <3>1, <3>2
    <3>5. \A c \in Canvas : stage'[c] = "loading" => stage[c] = "loading"
      BY <3>1, <3>2
    <3> QED
      BY <2>0, <3>3, <3>4, <3>5
  <2> QED
    BY <2>1, <2>2
<1>2. CASE Leave
  BY <1>2 DEF Leave
<1>3. CASE ScriptLoads
  <2>1. promise' = "ready" /\ scripts' = scripts \ {"current"}
    BY <1>3 DEF ScriptLoads
  <2> QED
    BY <1>3, <2>1, Settled DEF ScriptLoads
<1>4. CASE ScriptFails
  <2>1. promise' = "none" /\ scripts' = scripts \ {"current"}
    BY <1>4 DEF ScriptFails
  <2> QED
    BY <1>4, <2>1, Settled DEF ScriptFails
<1>5. CASE ScriptTimesOut
  <2>1. promise' = "none" /\ scripts' = {"late"}
    BY <1>5 DEF ScriptTimesOut
  <2> QED
    BY <1>5, <2>1, Settled DEF ScriptTimesOut
<1>6. CASE LateScript
  <2>1. /\ scripts' = scripts \ {"late"}
        /\ visits' = visits /\ promise' = promise /\ stage' = stage
    BY <1>6 DEF LateScript
  <2> QED
    BY <2>1
<1>7. CASE UNCHANGED adapterVars
  <2>1. visits' = visits /\ promise' = promise /\ stage' = stage /\ scripts' = scripts
    BY <1>7 DEF adapterVars
  <2> QED
    BY <2>1
<1> QED
  BY <1>1, <1>2, <1>3, <1>4, <1>5, <1>6, <1>7 DEF AdapterNext

\* The adapters start with a loader nobody asked.
LEMMA LoaderStart == AdapterInit => LoaderInv /\ LoaderReady
  BY DEF AdapterInit, LoaderInv, LoaderTyped, LoaderReady

\* A creation waits only while the script is on its way, and a load that failed
\* is forgotten.
THEOREM LoaderCorrect == Spec => []LoaderSound
<1>1. LoaderInv /\ LoaderReady => LoaderSound
  BY DEF LoaderInv, LoaderReady, LoaderSound, Waiting
<1> QED
  BY <1>1, AdapterStart, LoaderStart, AdapterStep, LoaderStep, ReadyStep, PTL DEF Spec

-----------------------------------------------------------------------------
\* A canvas holds no map or one.
Held == {{}, {"google"}, {"openstreetmap"}}

CanvasTyped ==
  /\ visits \in 0..MaxVisits /\ page \in {NoPage, visits}
  /\ config \in [Canvas -> Configurations \cup {NoConfiguration}]
  /\ stage \in [Canvas -> {"absent", "loading", "ready", "failed", "destroyed"}]
  /\ maps \in [Canvas -> Held]
  /\ registry \subseteq Canvas
  /\ \A c \in Canvas : c > visits => stage[c] = "absent" /\ c \notin registry

\* A canvas holds a map exactly when its creation succeeded.
ReadyHolds == \A c \in Canvas : stage[c] = "ready" <=> maps[c] # {}

\* A map is registered, or was left by its page while the script was loading,
\* and a creation on the page that waits is registered unless it is so later.
Owned ==
  \A c \in Canvas :
    /\ maps[c] # {} =>
          \/ c \in registry
          \/ c # page /\ maps[c] = {"google"} /\ ~RegistersLate(config[c])
    /\ stage[c] = "loading" /\ c = page => c \in registry \/ RegistersLate(config[c])

CanvasInv == CanvasTyped /\ ReadyHolds /\ Owned

\* What the attempts of the factory can leave on a canvas.
LEMMA Attempts ==
  /\ \A broken, shown, conf : Google(broken, shown, conf) \in Held
  /\ \A broken, conf : Google(broken, FALSE, conf) \in {{}, {"google"}}
  /\ \A broken, conf : BuiltAtOnce(broken, conf) \in Held
  /\ \A built : StageOf(built) \in {"ready", "failed"} /\ (StageOf(built) = "ready" <=> built # {})
<1>1. \A shown, conf : OpenStreetMap(shown, conf) \in {{}, {"openstreetmap"}}
  BY Zenon DEF OpenStreetMap
<1>2. \A conf : OpenStreetMap(FALSE, conf) = {}
  BY Zenon DEF OpenStreetMap
<1>3. DestroyGoogle({"google"}) = {}
  BY DEF DestroyGoogle
<1>4. \A broken, shown, conf :
         Google(broken, shown, conf) \in {{"google"}, OpenStreetMap(shown, conf)}
  <2> TAKE broken, shown, conf
  <2>1. DestroyGoogle({"google"}) \cup OpenStreetMap(shown, conf) = OpenStreetMap(shown, conf)
    BY <1>3
  <2> QED
    BY <2>1, Zenon DEF Google
<1>5. \A broken, shown, conf : Google(broken, shown, conf) \in Held
  <2> TAKE broken, shown, conf
  <2>1. OpenStreetMap(shown, conf) \in {{}, {"openstreetmap"}}
    BY <1>1
  <2>2. Google(broken, shown, conf) \in {{"google"}, OpenStreetMap(shown, conf)}
    BY <1>4
  <2> HIDE DEF Google, OpenStreetMap
  <2> QED
    BY <2>1, <2>2 DEF Held
<1>6. \A broken, conf : BuiltAtOnce(broken, conf) \in Held
  <2> TAKE broken, conf
  <2>1. {} \in Held /\ OpenStreetMap(TRUE, conf) \in Held /\ Google(broken, TRUE, conf) \in Held
    BY <1>1, <1>5, Zenon DEF Held
  <2> QED
    BY <2>1, Zenon DEF BuiltAtOnce
<1> QED
  BY <1>2, <1>4, <1>5, <1>6, Zenon DEF StageOf

\* A destroyed map leaves an empty canvas.
LEMMA Gone == \A built \in Held : DestroyGoogle(DestroyOpenStreetMap(built)) = {}
  BY DEF Held, DestroyGoogle, DestroyOpenStreetMap

\* The creations that waited end with a map or without, and those of pages that
\* are gone end with a Google map or none.
LEMMA ContinueKeeps == ASSUME CanvasInv, NEW broken, Continue(broken) PROVE CanvasInv'
<1> DEFINE Built(c) == Google(c \in broken, c = page, config[c])
<1>1. /\ maps' = [c \in Canvas |-> IF c \in Waiting THEN Built(c) ELSE maps[c]]
      /\ stage' = [c \in Canvas |-> IF c \in Waiting THEN StageOf(Built(c)) ELSE stage[c]]
      /\ registry' = registry \cup {c \in Waiting : RegistersLate(config[c])}
      /\ visits' = visits /\ page' = page /\ config' = config
  BY DEF Continue
<1>2. \A c \in Canvas : c \in Waiting <=> stage[c] = "loading"
  BY DEF Waiting
<1>3. \A c \in Canvas :
         /\ Built(c) \in Held
         /\ StageOf(Built(c)) \in {"ready", "failed"}
         /\ StageOf(Built(c)) = "ready" <=> Built(c) # {}
  BY Attempts
<1>4. \A c \in Canvas : c # page => Built(c) \in {{}, {"google"}}
  <2> SUFFICES ASSUME NEW c \in Canvas, c # page PROVE Built(c) \in {{}, {"google"}}
    OBVIOUS
  <2>1. (c = page) = FALSE
    OBVIOUS
  <2>2. Built(c) = Google(c \in broken, FALSE, config[c])
    BY <2>1, Zenon
  <2> QED
    BY <2>2, Attempts, Zenon
<1> HIDE DEF Built
<1>5. CanvasTyped'
  <2>1. registry' \subseteq Canvas
    BY <1>1 DEF CanvasInv, CanvasTyped, Waiting
  <2>2. maps' \in [Canvas -> Held]
    BY <1>1, <1>3 DEF CanvasInv, CanvasTyped
  <2>3. stage' \in [Canvas -> {"absent", "loading", "ready", "failed", "destroyed"}]
    BY <1>1, <1>3 DEF CanvasInv, CanvasTyped
  <2>4. \A c \in Canvas : c > visits => stage'[c] = "absent" /\ c \notin registry'
    BY <1>1, <1>2 DEF CanvasInv, CanvasTyped
  <2> QED
    BY <1>1, <2>1, <2>2, <2>3, <2>4 DEF CanvasInv, CanvasTyped
<1>6. ReadyHolds'
  BY <1>1, <1>3 DEF CanvasInv, ReadyHolds
<1>7. Owned'
  <2> SUFFICES ASSUME NEW c \in Canvas
               PROVE  /\ maps'[c] # {} =>
                            \/ c \in registry'
                            \/ c # page /\ maps'[c] = {"google"} /\ ~RegistersLate(config[c])
                      /\ stage'[c] # "loading"
    BY <1>1 DEF Owned
  <2>1. CASE c \in Waiting
    <3>1. maps'[c] = Built(c) /\ stage'[c] = StageOf(Built(c))
      BY <1>1, <2>1
    <3>2. RegistersLate(config[c]) => c \in registry'
      BY <1>1, <2>1
    <3>3. c = page => c \in registry \/ RegistersLate(config[c])
      BY <1>2, <2>1 DEF CanvasInv, Owned
    <3>4. registry \subseteq registry'
      BY <1>1
    <3>5. stage'[c] # "loading"
      BY <1>3, <3>1
    <3> QED
      BY <1>4, <3>1, <3>2, <3>3, <3>4, <3>5
  <2>2. CASE c \notin Waiting
    BY <1>1, <1>2, <2>2 DEF CanvasInv, Owned
  <2> QED
    BY <2>1, <2>2
<1> QED
  BY <1>5, <1>6, <1>7 DEF CanvasInv

\* A new page starts on a fresh canvas, which it registers unless it waits and
\* registers later.
LEMMA ArriveKeeps ==
  ASSUME CanvasInv, NEW conf \in Configurations, Arrive(conf) PROVE CanvasInv'
<1> DEFINE c == visits + 1
<1>1. /\ page = NoPage /\ visits \in Nat /\ c \in Canvas
      /\ visits' = c /\ page' = c
      /\ config' = [config EXCEPT ![c] = conf]
  BY Constants DEF Arrive, CanvasInv, CanvasTyped, Canvas
<1>2. PICK built \in Held, st \in {"loading", "ready", "failed"} :
         /\ maps' = [maps EXCEPT ![c] = built]
         /\ stage' = [stage EXCEPT ![c] = st]
         /\ st = "ready" <=> built # {}
         /\ \/ registry' = registry \cup {c}
            \/ st = "loading" /\ RegistersLate(conf) /\ registry' = registry
  <2>1. CASE AwaitsScript(conf)
    <3>1. maps' = maps /\ stage' = [stage EXCEPT ![c] = "loading"]
      BY <2>1 DEF Arrive
    <3>2. registry' = IF RegistersLate(conf) THEN registry ELSE registry \cup {c}
      BY <2>1 DEF Arrive
    <3>3. maps[c] = {}
      BY <1>1 DEF CanvasInv, CanvasTyped, ReadyHolds
    <3>4. maps' = [maps EXCEPT ![c] = {}]
      BY <1>1, <3>1, <3>3 DEF CanvasInv, CanvasTyped
    <3>5. {} \in Held
      BY DEF Held
    <3> QED
      BY <3>1, <3>2, <3>4, <3>5
  <2>2. CASE ~AwaitsScript(conf)
    <3>1. PICK broken \in BOOLEAN :
             /\ maps' = [maps EXCEPT ![c] = BuiltAtOnce(broken, conf)]
             /\ stage' = [stage EXCEPT ![c] = StageOf(BuiltAtOnce(broken, conf))]
      BY <2>2 DEF Arrive
    <3>2. registry' = registry \cup {c}
      BY <2>2 DEF Arrive
    <3> QED
      BY <3>1, <3>2, Attempts
  <2> QED
    BY <2>1, <2>2
<1> HIDE DEF c
<1>3. c > visits /\ page # c /\ c # NoPage
  BY <1>1 DEF c, NoPage
<1>4. CanvasTyped'
  <2>1. \A d \in Canvas : d > visits' => stage'[d] = "absent" /\ d \notin registry'
    BY <1>1, <1>2, <1>3 DEF c, CanvasInv, CanvasTyped, Canvas
  <2>2. config' \in [Canvas -> Configurations \cup {NoConfiguration}]
    BY <1>1 DEF CanvasInv, CanvasTyped
  <2>3. maps' \in [Canvas -> Held] /\ registry' \subseteq Canvas
    BY <1>1, <1>2 DEF CanvasInv, CanvasTyped
  <2>4. stage' \in [Canvas -> {"absent", "loading", "ready", "failed", "destroyed"}]
    BY <1>1, <1>2 DEF CanvasInv, CanvasTyped
  <2>5. visits' \in 0..MaxVisits /\ page' \in {NoPage, visits'}
    BY <1>1 DEF c, Canvas
  <2> QED
    BY <2>1, <2>2, <2>3, <2>4, <2>5 DEF CanvasTyped
<1>5. ReadyHolds'
  BY <1>1, <1>2 DEF CanvasInv, CanvasTyped, ReadyHolds
<1>6. Owned'
  <2> SUFFICES ASSUME NEW d \in Canvas
               PROVE  /\ maps'[d] # {} =>
                            \/ d \in registry'
                            \/ d # page' /\ maps'[d] = {"google"} /\ ~RegistersLate(config'[d])
                      /\ stage'[d] = "loading" /\ d = page' =>
                            d \in registry' \/ RegistersLate(config'[d])
    BY DEF Owned, RegistersLate
  <2>1. CASE d = c
    <3>1. maps'[d] = built /\ stage'[d] = st /\ config'[d] = conf
      BY <1>1, <1>2, <2>1 DEF CanvasInv, CanvasTyped
    <3> QED
      BY <1>2, <2>1, <3>1
  <2>2. CASE d # c
    <3>1. maps'[d] = maps[d] /\ config'[d] = config[d] /\ d # page'
      BY <1>1, <1>2, <2>2 DEF CanvasInv, CanvasTyped
    <3>2. registry \subseteq registry'
      BY <1>2
    <3> QED
      BY <3>1, <3>2 DEF CanvasInv, Owned
  <2> QED
    BY <2>1, <2>2
<1> QED
  BY <1>4, <1>5, <1>6 DEF CanvasInv

\* Leaving a page destroys every registered map.
LEMMA LeaveKeeps == ASSUME CanvasInv, Leave PROVE CanvasInv'
<1>1. /\ page' = NoPage /\ registry' = {}
      /\ visits' = visits /\ config' = config
      /\ maps' = [c \in Canvas |->
                     IF c \in registry /\ stage[c] = "ready"
                     THEN DestroyGoogle(DestroyOpenStreetMap(maps[c])) ELSE maps[c]]
      /\ stage' = [c \in Canvas |->
                     IF c \in registry /\ stage[c] # "loading" THEN "destroyed" ELSE stage[c]]
  BY DEF Leave
<1>2. \A c \in Canvas : maps[c] \in Held
  BY DEF CanvasInv, CanvasTyped
<1>3. \A c \in Canvas : maps'[c] = IF c \in registry /\ stage[c] = "ready" THEN {} ELSE maps[c]
  BY <1>1, <1>2, Gone
<1>4. {} \in Held
  BY DEF Held
<1>5. CanvasTyped'
  <2>1. maps' \in [Canvas -> Held]
    BY <1>1, <1>2, <1>3, <1>4
  <2>2. stage' \in [Canvas -> {"absent", "loading", "ready", "failed", "destroyed"}]
    BY <1>1 DEF CanvasInv, CanvasTyped
  <2>3. \A c \in Canvas : c > visits' => stage'[c] = "absent"
    BY <1>1 DEF CanvasInv, CanvasTyped
  <2> QED
    BY <1>1, <2>1, <2>2, <2>3 DEF CanvasInv, CanvasTyped
<1>6. ReadyHolds'
  BY <1>1, <1>3 DEF CanvasInv, ReadyHolds
<1>7. Owned'
  <2> SUFFICES ASSUME NEW c \in Canvas, maps'[c] # {}
               PROVE  c # page' /\ maps'[c] = {"google"} /\ ~RegistersLate(config'[c])
    BY <1>1 DEF Owned, RegistersLate, CanvasInv, CanvasTyped, Canvas, NoPage
  <2>1. maps'[c] = maps[c] /\ c \notin registry
    BY <1>3 DEF CanvasInv, ReadyHolds
  <2>2. c # page'
    BY <1>1, Constants DEF Canvas, NoPage
  <2> QED
    BY <1>1, <2>1, <2>2 DEF CanvasInv, Owned
<1> QED
  BY <1>5, <1>6, <1>7 DEF CanvasInv

\* No step of the adapters loses a map.
LEMMA CanvasStep == CanvasInv /\ [AdapterNext]_adapterVars => CanvasInv'
<1> SUFFICES ASSUME CanvasInv, [AdapterNext]_adapterVars PROVE CanvasInv'
  OBVIOUS
<1>1. ASSUME UNCHANGED <<visits, page, config, stage, maps, registry>> PROVE CanvasInv'
  BY <1>1 DEF CanvasInv, CanvasTyped, ReadyHolds, Owned, RegistersLate
<1>2. CASE LateScript \/ UNCHANGED adapterVars
  BY <1>1, <1>2 DEF LateScript, adapterVars
<1>3. CASE ScriptLoads \/ ScriptFails \/ ScriptTimesOut
  BY <1>3, ContinueKeeps DEF ScriptLoads, ScriptFails, ScriptTimesOut
<1> QED
  BY <1>2, <1>3, ArriveKeeps, LeaveKeeps DEF AdapterNext

\* The adapters start without maps.
LEMMA CanvasStart == AdapterInit => CanvasInv
<1>1. {} \in Held
  BY DEF Held
<1> QED
  BY <1>1, Constants DEF AdapterInit, CanvasInv, CanvasTyped, ReadyHolds, Owned, NoPage

\* No map object is lost, whatever attempt failed and whenever its page was left.
THEOREM MapsCorrect == Spec => []MapsAccounted
<1>1. CanvasInv => MapsAccounted
  <2> SUFFICES ASSUME CanvasInv, NEW c \in Canvas
               PROVE  /\ (\E p \in maps[c] : maps[c] = {p}) <=> stage[c] = "ready"
                      /\ maps[c] # {} =>
                            \/ c \in registry
                            \/ c # page /\ maps[c] = {"google"} /\ ~RegistersLate(config[c])
    BY DEF MapsAccounted
  <2>1. maps[c] \in Held
    BY DEF CanvasInv, CanvasTyped
  <2>2. (\E p \in maps[c] : maps[c] = {p}) <=> maps[c] # {}
    BY <2>1 DEF Held
  <2> QED
    BY <2>2 DEF CanvasInv, ReadyHolds, Owned
<1> QED
  BY <1>1, AdapterStart, CanvasStart, AdapterStep, CanvasStep, PTL DEF Spec

-----------------------------------------------------------------------------
\* What a finder knows of its requests, whatever its form asks by now.
Requesting(f) ==
  /\ f \in Finder
  /\ f.lastRequestKey # NoKey =>
        \/ f.requests = {f.lastRequestKey}
        \/ f.requests = {} /\ f.answered = f.lastRequestKey
  /\ f.message = "loading" => f.requests # {}

\* The request that was sent last is the one the form asks.
Answering(home, f) ==
  Requesting(f) /\ (f.lastRequestKey # NoKey => f.lastRequestKey = KeyOf(home, f))

\* What a form and a viewport ask is a query, never the position's.
LEMMA KeyTyped ==
  ASSUME NEW home, NEW f \in Finder
  PROVE  KeyOf(home, f) \in Key /\ KeyOf(home, f) # NoKey /\ KeyOf(home, f) # Nearby
<1>1. f.form \in Form /\ f.bounds \in View \cup {NoView}
  BY DEF Finder
<1>2. (IF home \/ f.form \in NamedForm THEN NoView ELSE f.bounds) \in View \cup {NoView}
  BY <1>1, Zenon
<1>3. KeyOf(home, f) \in Key
  BY <1>1, <1>2 DEF KeyOf, Key
<1> QED
  BY <1>3, Constants

\* A new finder has asked nothing.
LEMMA NewAnswers ==
  ASSUME NEW home, NEW form \in Form PROVE Answering(home, NewFinder(form))
  BY DEF Answering, Requesting, NewFinder, Finder

\* A fetch asks what the form asks.
LEMMA FetchAnswers ==
  ASSUME NEW home, NEW f, Requesting(f), NEW force
  PROVE  Answering(home, Fetch(home, f, force))
<1> DEFINE key == KeyOf(home, f)
           message == IF f.stations = {} THEN "loading" ELSE f.message
           asked == [f EXCEPT !.lastRequestKey = key, !.requests = {key}, !.message = message]
<1>1. f \in Finder /\ key \in Key /\ key # NoKey
  BY KeyTyped DEF Requesting
<1>2. message \in {"none", "loading", "empty", "error", "offline"}
  BY <1>1 DEF Finder
<1>3. CASE Fetch(home, f, force) = f /\ key = f.lastRequestKey
  BY <1>3 DEF Answering
<1>4. CASE Fetch(home, f, force) = asked
  <2> HIDE DEF key, message
  <2>1. /\ asked.form = f.form /\ asked.bounds = f.bounds
        /\ asked.lastRequestKey = key /\ asked.requests = {key} /\ asked.message = message
        /\ asked \in Finder
    BY <1>1, <1>2 DEF Finder
  <2> HIDE DEF asked
  <2>2. KeyOf(home, asked) = key
    BY <2>1 DEF key, KeyOf
  <2> QED
    BY <1>4, <2>1, <2>2 DEF Answering, Requesting
<1>5. Fetch(home, f, force) \in {f, asked} /\ (Fetch(home, f, force) # asked => key = f.lastRequestKey)
  BY Zenon DEF Fetch
<1> QED
  BY <1>3, <1>4, <1>5

\* The form and the viewport may change before the fetch.
LEMMA RequestingStays ==
  ASSUME NEW f, Requesting(f)
  PROVE  /\ \A form \in Form : Requesting([f EXCEPT !.form = form])
         /\ \A bounds \in View \cup {NoView} : Requesting([f EXCEPT !.bounds = bounds])
  BY DEF Requesting, Finder

\* A page that starts with its map, or without one, asks what it shows.
LEMMA StartAnswers ==
  ASSUME NEW home, NEW f, Requesting(f), NEW built, NEW view \in View
  PROVE  Answering(home, Started(home, f, built, view))
<1> DEFINE seen == IF home \/ built = {} THEN f.bounds ELSE VisibleBounds(built, view)
<1>1. f.bounds \in View \cup {NoView}
  BY DEF Requesting, Finder
<1>2. VisibleBounds(built, view) \in View \cup {NoView}
  BY Zenon DEF VisibleBounds
<1>3. seen \in View \cup {NoView}
  BY <1>1, <1>2, Zenon
<1> HIDE DEF seen
<1>4. Requesting([f EXCEPT !.bounds = seen])
  BY <1>3, RequestingStays
<1> QED
  BY <1>4, FetchAnswers DEF Started, seen

\* Answers and failures of requests, and messages, leave a finder that answers.
LEMMA OutcomeAnswers ==
  ASSUME NEW home, NEW f, Answering(home, f)
  PROVE  /\ Answering(home, FetchNearby(f))
         /\ \A key \in f.requests, found \in SUBSET Station, ready \in BOOLEAN :
               Answering(home, Answer(f, key, found, ready))
         /\ \A key \in f.requests : Answering(home, Fail(f, key))
         /\ \A m \in {"offline", "error"} : Answering(home, [f EXCEPT !.message = m])
<1>1. f \in Finder /\ f.requests \subseteq Key \cup {Nearby}
  BY DEF Answering, Requesting, Finder
<1>2. f.lastRequestKey # NoKey => f.lastRequestKey = KeyOf(home, f) /\ f.lastRequestKey # Nearby
  BY <1>1, KeyTyped DEF Answering
<1>3. Answering(home, FetchNearby(f))
  BY <1>1 DEF Answering, Requesting, FetchNearby, Finder
<1>4. ASSUME NEW key \in f.requests, NEW found \in SUBSET Station, NEW ready \in BOOLEAN
      PROVE  Answering(home, Answer(f, key, found, ready))
  <2> DEFINE g == Answer(f, key, found, ready)
  <2>1. /\ g.form = f.form /\ g.bounds = f.bounds /\ g.lastRequestKey = f.lastRequestKey
        /\ g.requests = f.requests \ {key} /\ g.answered = key
        /\ g.message \in {"empty", "none"}
        /\ g \in Finder
    BY <1>1, <1>4 DEF Answer, Finder
  <2> HIDE DEF g
  <2>2. KeyOf(home, g) = KeyOf(home, f)
    BY <2>1 DEF KeyOf
  <2> QED
    BY <1>2, <1>4, <2>1, <2>2 DEF Answering, Requesting, g
<1>5. ASSUME NEW key \in f.requests PROVE Answering(home, Fail(f, key))
  <2> DEFINE g == Fail(f, key)
  <2>1. /\ g.form = f.form /\ g.bounds = f.bounds /\ g.answered = f.answered
        /\ g.lastRequestKey = (IF key = Nearby THEN f.lastRequestKey ELSE NoKey)
        /\ g.requests = f.requests \ {key} /\ g.message = "error"
        /\ g \in Finder
    BY <1>1, <1>5 DEF Fail, Finder
  <2> HIDE DEF g
  <2>2. KeyOf(home, g) = KeyOf(home, f)
    BY <2>1 DEF KeyOf
  <2>3. g.lastRequestKey # NoKey => key = Nearby /\ f.requests # {f.lastRequestKey}
    BY <1>2, <1>5, <2>1
  <2> QED
    BY <1>2, <1>5, <2>1, <2>2, <2>3 DEF Answering, Requesting, g
<1>6. ASSUME NEW m \in {"offline", "error"} PROVE Answering(home, [f EXCEPT !.message = m])
  <2> DEFINE g == [f EXCEPT !.message = m]
  <2>1. /\ g.form = f.form /\ g.bounds = f.bounds /\ g.lastRequestKey = f.lastRequestKey
        /\ g.requests = f.requests /\ g.answered = f.answered /\ g.message = m
        /\ g \in Finder
    BY <1>1, <1>6 DEF Finder
  <2> HIDE DEF g
  <2>2. KeyOf(home, g) = KeyOf(home, f)
    BY <2>1 DEF KeyOf
  <2> QED
    BY <1>2, <1>6, <2>1, <2>2 DEF Answering, Requesting, g
<1> QED
  BY <1>3, <1>4, <1>5, <1>6

\* The finder on the page answers its form.
ListInv == OnFinder => Answering(Home, finder)

\* A page that arrives has the surface of its configuration.
LEMMA NewSurface ==
  ASSUME CanvasInv, NEW conf \in Configurations, Arrive(conf)
  PROVE  page' \in Canvas /\ config'[page'] = conf
  BY Constants DEF Arrive, CanvasInv, CanvasTyped, Canvas

\* Every step of a finder's page keeps its list answering its form.
LEMMA ListStep == CanvasInv /\ ListInv /\ [Next]_vars => ListInv'
<1> SUFFICES ASSUME CanvasInv, ListInv, [Next]_vars PROVE ListInv'
  OBVIOUS
<1>1. ASSUME NEW conf \in Configurations, VisitFinder(conf) PROVE ListInv'
  <2>1. Arrive(conf) /\ (Home' <=> conf.kind = "home")
    BY <1>1, NewSurface DEF VisitFinder, Home
  <2>2. PICK form \in Form :
           IF Over THEN FinderAttached(conf.kind = "home", NewFinder(form))
                   ELSE finder' = NewFinder(form)
    BY <1>1 DEF VisitFinder
  <2>3. \A home : Answering(home, NewFinder(form))
    BY NewAnswers
  <2>4. CASE Over
    <3>1. PICK view \in View :
             finder' = Started(conf.kind = "home", NewFinder(form), maps'[page'], view)
      BY <2>2, <2>4 DEF FinderAttached
    <3>2. Answering(conf.kind = "home", finder')
      BY <2>3, <3>1, StartAnswers DEF Answering
    <3>3. (conf.kind = "home") = Home'
      BY <1>1, <2>1, NewSurface DEF Home
    <3> QED
      BY <3>2, <3>3 DEF ListInv
  <2>5. CASE ~Over
    <3>1. finder' = NewFinder(form)
      BY <2>2, <2>5
    <3> QED
      BY <2>3, <3>1 DEF ListInv
  <2> QED
    BY <2>4, <2>5
<1>2. ASSUME NEW conf \in Configurations,
             VisitPortal(conf) \/ VisitPicker(conf) \/ VisitDetail(conf)
      PROVE  ListInv'
  <2>1. Arrive(conf) /\ conf.kind \notin {"home", "finder"}
    BY <1>2 DEF VisitPortal, VisitPicker, VisitDetail
  <2>2. config'[page'].kind = conf.kind
    BY <2>1, NewSurface
  <2> QED
    BY <2>1, <2>2 DEF ListInv, OnFinder, On
<1>3. CASE Navigate
  BY <1>3 DEF Navigate, Leave, ListInv, OnFinder, On
<1>4. ASSUME page' = page, config' = config, finder' = finder PROVE ListInv'
  <2>1. Home' = Home /\ (OnFinder' <=> OnFinder)
    BY <1>4 DEF Home, OnFinder, On
  <2> QED
    BY <1>4, <2>1 DEF ListInv
<1>5. ASSUME OnFinder => Answering(Home, finder'), page' = page, config' = config
      PROVE  ListInv'
  <2>1. Home' = Home /\ (OnFinder' <=> OnFinder)
    BY <1>5 DEF Home, OnFinder, On
  <2> QED
    BY <1>5, <2>1 DEF ListInv
<1>6. CASE LoadScript \/ FailScript \/ TimeOutScript
  <2>1. page' = page /\ config' = config
    BY <1>6 DEF LoadScript, FailScript, TimeOutScript, ScriptLoads, ScriptFails,
                ScriptTimesOut, Continue
  <2>2. (OnFinder /\ FinderAttached(Home, finder)) \/ finder' = finder
    BY <1>6 DEF LoadScript, FailScript, TimeOutScript, Attach, contentVars
  <2>3. ASSUME OnFinder, FinderAttached(Home, finder) PROVE Answering(Home, finder')
    <3>1. PICK view \in View : finder' = Started(Home, finder, maps'[page'], view)
      BY <2>3 DEF FinderAttached
    <3>2. Requesting(finder)
      BY <2>3 DEF ListInv, Answering
    <3> QED
      BY <3>1, <3>2, StartAnswers
  <2> QED
    BY <1>4, <1>5, <2>1, <2>2, <2>3
<1>7. CASE RunLateScript \/ UNCHANGED vars
  BY <1>4, <1>7 DEF RunLateScript, LateScript, contentVars, vars, adapterVars
<1>8. CASE FinderStep
  <2>1. page' = page /\ config' = config
    BY <1>8 DEF FinderStep, adapterVars
  <2>2. SUFFICES ASSUME OnFinder PROVE Answering(Home, finder')
    BY <1>5, <2>1, <2>2
  <2>3. Answering(Home, finder) /\ Requesting(finder)
    BY <2>2 DEF ListInv, Answering
  <2>4. ASSUME NEW form \in Form, ChangeForm(form) PROVE Answering(Home, finder')
    BY <2>3, <2>4, RequestingStays, FetchAnswers DEF ChangeForm
  <2>5. ASSUME NEW view \in View, ViewportChanged(view) PROVE Answering(Home, finder')
    <3> DEFINE moved == [finder EXCEPT !.bounds = view]
    <3>1. Requesting(moved)
      BY <2>3, RequestingStays
    <3>2. CASE ~Home
      BY <2>5, <3>1, <3>2, FetchAnswers DEF ViewportChanged
    <3>3. CASE Home
      <4>1. finder' = moved
        BY <2>5, <3>3 DEF ViewportChanged
      <4>2. moved.form = finder.form /\ moved.lastRequestKey = finder.lastRequestKey
        BY <2>3 DEF Requesting, Finder
      <4>3. KeyOf(Home, moved) = KeyOf(Home, finder)
        BY <3>3, <4>2 DEF KeyOf
      <4> QED
        BY <2>3, <3>1, <4>1, <4>2, <4>3 DEF Answering
    <3> QED
      BY <3>2, <3>3
  <2>6. CASE Refresh
    BY <2>3, <2>6, FetchAnswers DEF Refresh
  <2>7. CASE GoOffline \/ LocationFound \/ LocationDenied
    <3>1. \/ finder' = FetchNearby(finder)
          \/ \E m \in {"offline", "error"} : finder' = [finder EXCEPT !.message = m]
      BY <2>7 DEF GoOffline, LocationFound, LocationDenied
    <3>2. Answering(Home, FetchNearby(finder))
      BY <2>3, OutcomeAnswers
    <3>3. \A m \in {"offline", "error"} : Answering(Home, [finder EXCEPT !.message = m])
      BY <2>3, OutcomeAnswers
    <3> QED
      BY <3>1, <3>2, <3>3
  <2>8. ASSUME NEW key \in finder.requests, RequestFails(key) PROVE Answering(Home, finder')
    BY <2>3, <2>8, OutcomeAnswers DEF RequestFails
  <2> QED
    BY <1>8, <2>4, <2>5, <2>6, <2>7, <2>8 DEF FinderStep
<1>9. ASSUME NEW key \in finder.requests, NEW found \in SUBSET Station,
             RequestSucceeds(key, found)
      PROVE  ListInv'
  <2>1. page' = page /\ config' = config
    BY <1>9 DEF RequestSucceeds, adapterVars
  <2>2. OnFinder /\ finder' = Answer(finder, key, found, Ready)
    BY <1>9 DEF RequestSucceeds
  <2>3. Ready \in BOOLEAN
    BY DEF Ready
  <2> QED
    BY <1>5, <2>1, <2>2, <2>3, OutcomeAnswers DEF ListInv
<1>10. ASSUME \/ \E list \in SUBSET Station : FilterPortal(list)
              \/ \E id \in Station : SelectInFinder(id) \/ ShowDetails(id)
              \/ \E axis \in {"lat", "lon"}, value \in Field : TypeField(axis, value)
              \/ \E position \in Position : PlacePin(position)
       PROVE  ListInv'
  <2>1. UNCHANGED <<page, config, finder>>
    BY <1>10 DEF FilterPortal, SelectInFinder, ShowDetails, TypeField, PlacePin, adapterVars
  <2> QED
    BY <1>4, <2>1
<1> QED
  BY <1>1, <1>2, <1>3, <1>6, <1>7, <1>8, <1>9, <1>10 DEF Next, PageStep

\* The list of the finder answers what its form and its viewport ask by now,
\* unless that query is under way, failed or gave way to the driver's position.
THEOREM ListCorrect == Spec => []ListAnswersForm
<1>1. Init => ListInv
  BY DEF Init, AdapterInit, ListInv, OnFinder, On
<1>2. ListInv => ListAnswersForm
  BY DEF ListInv, ListAnswersForm, Answering, Requesting
<1> QED
  BY <1>1, <1>2, AdapterStart, CanvasStart, AdapterStep, CanvasStep, ListStep, PTL DEF Spec

-----------------------------------------------------------------------------
\* Two valid coordinates are the position of the marker.
PinInv ==
  /\ fields \in Fields
  /\ PinIsFields

\* Fields that hold coordinates name their position.
LEMMA PositionRead ==
  \A f \in Position : Valid(f) /\ PositionOf(f) = f /\ f.lat # Empty /\ f.lon # Empty
<1> SUFFICES ASSUME NEW f \in Position
             PROVE  Valid(f) /\ PositionOf(f) = f /\ f.lat # Empty /\ f.lon # Empty
  OBVIOUS
<1>1. f.lat \in Coordinate /\ f.lon \in Coordinate /\ f = [lat |-> f.lat, lon |-> f.lon]
  BY DEF Position
<1>2. Number(f.lat) = f.lat /\ Number(f.lon) = f.lon
  BY <1>1, Constants DEF Number
<1> QED
  BY <1>1, <1>2, Constants DEF Valid, PositionOf

\* A new marker stands where two coordinates say.
LEMMA PinOnReadyReads ==
  \A f \in Position : \A rendered : PinOnReady(f, rendered) = f
<1> SUFFICES ASSUME NEW f \in Position, NEW rendered PROVE PinOnReady(f, rendered) = f
  OBVIOUS
<1> DEFINE shown == [lat |-> IF f.lat # Empty THEN f.lat ELSE rendered.lat,
                     lon |-> IF f.lon # Empty THEN f.lon ELSE rendered.lon]
<1>1. shown = f
  BY PositionRead DEF Position
<1> HIDE DEF shown
<1>2. PinOnReady(f, rendered) = IF Valid(shown) THEN PositionOf(shown) ELSE Centre
  BY DEF PinOnReady, shown
<1> QED
  BY <1>1, <1>2, PositionRead

\* A picker's page is alone: its steps are its own, and the marker follows them.
LEMMA PinStep == CanvasInv /\ PinInv /\ [Next]_vars => PinInv'
<1> SUFFICES ASSUME CanvasInv, PinInv, [Next]_vars PROVE PinInv'
  OBVIOUS
<1>1. ASSUME NEW conf \in Configurations, VisitPicker(conf) PROVE PinInv'
  <2>1. PICK rendered \in Rendered : fields' = rendered /\ PickerAttached(rendered, rendered)
    BY <1>1 DEF VisitPicker
  <2>2. fields' \in Fields
    BY <2>1 DEF Rendered, Fields, Field
  <2>3. stage'[page'] = "ready" /\ rendered \in Position => pin' = rendered
    BY <2>1, PinOnReadyReads DEF PickerAttached, MapBuilt
  <2> QED
    BY <2>1, <2>2, <2>3 DEF PinInv, PinIsFields, Ready
<1>2. ASSUME NEW conf \in Configurations,
             VisitFinder(conf) \/ VisitPortal(conf) \/ VisitDetail(conf)
      PROVE  PinInv'
  <2>1. Arrive(conf) /\ conf.kind # "picker" /\ fields' = fields
    BY <1>2 DEF VisitFinder, VisitPortal, VisitDetail
  <2>2. config'[page'].kind = conf.kind
    BY <2>1, NewSurface
  <2> QED
    BY <2>1, <2>2 DEF PinInv, PinIsFields, On
<1>3. CASE Navigate
  BY <1>3 DEF Navigate, Leave, PinInv, PinIsFields, Ready, Unset, Fields, Field
<1>4. ASSUME UNCHANGED <<page, config, stage, fields, pin>> PROVE PinInv'
  BY <1>4 DEF PinInv, PinIsFields, Ready, On
<1>5. CASE LoadScript \/ FailScript \/ TimeOutScript
  <2>1. PICK broken : Continue(broken)
    BY <1>5 DEF LoadScript, FailScript, TimeOutScript, ScriptLoads, ScriptFails, ScriptTimesOut
  <2>2. Attach
    BY <1>5 DEF LoadScript, FailScript, TimeOutScript
  <2>3. page' = page /\ config' = config
    BY <2>1 DEF Continue
  <2>4. fields' = fields
    BY <2>2 DEF Attach, contentVars
  <2>5. SUFFICES ASSUME Ready', page # NoPage, config[page].kind = "picker", fields \in Position
                 PROVE  pin' = fields
    BY <2>3, <2>4 DEF PinInv, PinIsFields, On
  <2>6. page \in Canvas
    BY <2>5, Constants DEF CanvasInv, CanvasTyped, Canvas, Ready, NoPage
  <2>7. CASE page \in Waiting
    <3>1. PickerAttached(fields, initial)
      BY <2>2, <2>5, <2>7 DEF Attach, OnFinder, On
    <3> QED
      BY <2>5, <3>1, PinOnReadyReads DEF PickerAttached, MapBuilt, Ready
  <2>8. CASE page \notin Waiting
    <3>1. stage'[page] = stage[page]
      BY <2>1, <2>6, <2>8 DEF Continue
    <3>2. pin' = pin
      BY <2>2, <2>8 DEF Attach, contentVars
    <3> QED
      BY <2>3, <2>5, <3>1, <3>2 DEF PinInv, PinIsFields, Ready, On
  <2> QED
    BY <2>7, <2>8
<1>6. CASE RunLateScript \/ UNCHANGED vars
  BY <1>4, <1>6 DEF RunLateScript, LateScript, contentVars, vars, adapterVars
<1>7. ASSUME NEW axis \in {"lat", "lon"}, NEW value \in Field, TypeField(axis, value)
      PROVE  PinInv'
  <2>1. /\ UNCHANGED <<page, config, stage>>
        /\ fields' = [fields EXCEPT ![axis] = value]
        /\ pin' = IF Ready /\ Valid(fields') THEN PositionOf(fields') ELSE pin
    BY <1>7 DEF TypeField, adapterVars
  <2>2. fields' \in Fields
    BY <2>1 DEF PinInv, Fields
  <2>3. Ready' <=> Ready
    BY <2>1 DEF Ready
  <2>4. Ready /\ fields' \in Position => pin' = fields'
    BY <2>1, PositionRead
  <2> QED
    BY <2>2, <2>3, <2>4 DEF PinInv, PinIsFields
<1>8. ASSUME NEW position \in Position, PlacePin(position) PROVE PinInv'
  <2>1. fields' = position /\ pin' = PositionOf(fields')
    BY <1>8 DEF PlacePin
  <2>2. fields' \in Fields
    BY <2>1 DEF Position, Fields, Field
  <2> QED
    BY <2>1, <2>2, PositionRead DEF PinInv, PinIsFields
<1>9. ASSUME \/ FinderStep
             \/ \E key \in finder.requests, found \in SUBSET Station : RequestSucceeds(key, found)
             \/ \E list \in SUBSET Station : FilterPortal(list)
             \/ \E id \in Station : SelectInFinder(id) \/ ShowDetails(id)
      PROVE  PinInv'
  <2>1. UNCHANGED <<page, config, stage, fields, pin>>
    BY <1>9 DEF FinderStep, RequestSucceeds, FilterPortal, SelectInFinder, ShowDetails,
                adapterVars
  <2> QED
    BY <1>4, <2>1
<1> QED
  BY <1>1, <1>2, <1>3, <1>5, <1>6, <1>7, <1>8, <1>9 DEF Next, PageStep

\* The coordinate fields are authoritative: two valid coordinates are where the
\* marker stands.
THEOREM PinCorrect == Spec => []PinIsFields
<1>1. Init => PinInv
  BY DEF Init, AdapterInit, PinInv, PinIsFields, Ready, Unset, Fields, Field
<1>2. PinInv => PinIsFields
  BY DEF PinInv
<1> QED
  BY <1>1, <1>2, AdapterStart, CanvasStart, AdapterStep, CanvasStep, PinStep, PTL DEF Spec

-----------------------------------------------------------------------------
\* A page without its map shows nothing; one with its map shows its list.
LayerInv ==
  /\ layer \in Layer
  /\ layer.highlighted = layer.markers \cap {layer.selected}
  /\ Ready \/ layer = EmptyLayer
  /\ Ready /\ On({"portal"}) => layer.markers = filtered \cap Located
  /\ OnFinder /\ finder.drawn => Ready
  /\ Ready /\ OnFinder => layer.markers = IF finder.drawn THEN finder.stations \cap Located
                                          ELSE {}

\* Setting and selecting markers draws the selected one alone as selected.
LEMMA Drawing ==
  ASSUME NEW l \in Layer, l.highlighted = l.markers \cap {l.selected}
  PROVE  /\ \A list \in SUBSET Station :
               LET next == SetMarkers(l, list) IN
               /\ next \in Layer /\ next.markers = list \cap Located
               /\ next.highlighted = next.markers \cap {next.selected}
         /\ \A id \in Station :
               LET next == SelectMarker(l, id) IN
               /\ next \in Layer /\ next.markers = l.markers
               /\ next.highlighted = next.markers \cap {next.selected}
<1>1. ASSUME NEW list \in SUBSET Station
      PROVE  LET next == SetMarkers(l, list) IN
             /\ next \in Layer /\ next.markers = list \cap Located
             /\ next.highlighted = next.markers \cap {next.selected}
  BY <1>1 DEF SetMarkers, Layer
<1>2. ASSUME NEW id \in Station
      PROVE  LET next == SelectMarker(l, id) IN
             /\ next \in Layer /\ next.markers = l.markers
             /\ next.highlighted = next.markers \cap {next.selected}
  <2> DEFINE next == SelectMarker(l, id)
  <2>1. /\ next.markers = l.markers /\ next.selected = id
        /\ next.highlighted = (l.highlighted \ {l.selected}) \cup (l.markers \cap {id})
        /\ next \in Layer
    BY <1>2 DEF SelectMarker, Layer
  <2>2. next.highlighted = l.markers \cap {id}
    BY <2>1
  <2> QED
    BY <2>1, <2>2
<1> QED
  BY <1>1, <1>2

\* An empty layer is one.
LEMMA EmptyDrawn ==
  /\ EmptyLayer \in Layer /\ EmptyLayer.markers = {}
  /\ EmptyLayer.highlighted = EmptyLayer.markers \cap {EmptyLayer.selected}
  BY DEF EmptyLayer, Layer

\* Only an answer changes the finder's list.
SameList(g, f) == g.stations = f.stations /\ g.drawn = f.drawn

LEMMA ListStays ==
  ASSUME NEW f \in Finder
  PROVE  /\ \A home, force : SameList(Fetch(home, f, force), f)
         /\ \A form : SameList([f EXCEPT !.form = form], f)
         /\ \A bounds : SameList([f EXCEPT !.bounds = bounds], f)
         /\ \A message : SameList([f EXCEPT !.message = message], f)
         /\ SameList(FetchNearby(f), f)
         /\ \A key : SameList(Fail(f, key), f)
<1>1. \A home, force : SameList(Fetch(home, f, force), f)
  <2> TAKE home, force
  <2> DEFINE asked == [f EXCEPT !.lastRequestKey = KeyOf(home, f), !.requests = {KeyOf(home, f)},
                               !.message = IF f.stations = {} THEN "loading" ELSE @]
  <2>1. SameList(asked, f)
    BY DEF Finder, SameList
  <2>2. Fetch(home, f, force) \in {f, asked}
    BY Zenon DEF Fetch
  <2> QED
    BY <2>1, <2>2 DEF SameList
<1>2. SameList(FetchNearby(f), f) /\ \A key : SameList(Fail(f, key), f)
  BY DEF FetchNearby, Fail, Finder, SameList
<1>3. /\ \A form : SameList([f EXCEPT !.form = form], f)
      /\ \A bounds : SameList([f EXCEPT !.bounds = bounds], f)
      /\ \A message : SameList([f EXCEPT !.message = message], f)
  BY DEF Finder, SameList
<1> QED
  BY <1>1, <1>2, <1>3

\* The first fetch of a finder keeps its list.
LEMMA StartKeeps ==
  ASSUME NEW home, NEW f, Requesting(f), NEW built, NEW view \in View
  PROVE  SameList(Started(home, f, built, view), f)
<1> DEFINE seen == IF home \/ built = {} THEN f.bounds ELSE VisibleBounds(built, view)
           moved == [f EXCEPT !.bounds = seen]
<1>1. f \in Finder /\ f.bounds \in View \cup {NoView}
  BY DEF Requesting, Finder
<1>2. VisibleBounds(built, view) \in View \cup {NoView}
  BY Zenon DEF VisibleBounds
<1>3. seen \in View \cup {NoView}
  BY <1>1, <1>2, Zenon
<1> HIDE DEF seen
<1>4. moved \in Finder
  BY <1>3, RequestingStays DEF Requesting
<1>5. SameList(moved, f)
  BY <1>1, ListStays
<1> HIDE DEF moved
<1>6. SameList(Fetch(home, moved, FALSE), moved)
  BY <1>4, ListStays
<1>7. Started(home, f, built, view) = Fetch(home, moved, FALSE)
  BY DEF Started, moved, seen
<1> QED
  BY <1>5, <1>6, <1>7 DEF SameList

\* A finder that is asked anew keeps its list.
LEMMA FinderKeeps ==
  ListInv /\ FinderStep => OnFinder /\ SameList(finder', finder)
<1> SUFFICES ASSUME ListInv, FinderStep PROVE OnFinder /\ SameList(finder', finder)
  OBVIOUS
<1>1. OnFinder
  BY DEF FinderStep, ChangeForm, ViewportChanged, Refresh, GoOffline, LocationFound,
         LocationDenied, RequestFails
<1>2. finder \in Finder /\ Requesting(finder)
  BY <1>1 DEF ListInv, Answering, Requesting
<1>3. ASSUME NEW moved \in Finder, SameList(moved, finder), NEW force \in BOOLEAN
      PROVE  SameList(Fetch(Home, moved, force), finder)
  <2>1. SameList(Fetch(Home, moved, force), moved)
    BY <1>3, ListStays
  <2> QED
    BY <1>3, <2>1 DEF SameList
<1>4. ASSUME NEW form \in Form, ChangeForm(form) PROVE SameList(finder', finder)
  <2> DEFINE moved == [finder EXCEPT !.form = form]
  <2>1. moved \in Finder /\ SameList(moved, finder)
    BY <1>2, RequestingStays, ListStays DEF Requesting
  <2>2. finder' = Fetch(Home, moved, FALSE)
    BY <1>4 DEF ChangeForm
  <2> HIDE DEF moved
  <2> QED
    BY <1>3, <2>1, <2>2
<1>5. ASSUME NEW view \in View, ViewportChanged(view) PROVE SameList(finder', finder)
  <2> DEFINE moved == [finder EXCEPT !.bounds = view]
  <2>1. moved \in Finder /\ SameList(moved, finder)
    BY <1>2, RequestingStays, ListStays DEF Requesting
  <2>2. finder' = moved \/ finder' = Fetch(Home, moved, FALSE)
    BY <1>5 DEF ViewportChanged
  <2> HIDE DEF moved
  <2> QED
    BY <1>3, <2>1, <2>2
<1>6. CASE Refresh
  BY <1>2, <1>6, ListStays DEF Refresh
<1>7. CASE GoOffline \/ LocationDenied
  BY <1>2, <1>7, ListStays DEF GoOffline, LocationDenied
<1>8. CASE LocationFound
  BY <1>2, <1>8, ListStays, Zenon DEF LocationFound
<1>9. ASSUME NEW key \in finder.requests, RequestFails(key) PROVE SameList(finder', finder)
  BY <1>2, <1>9, ListStays DEF RequestFails
<1> QED
  BY <1>1, <1>4, <1>5, <1>6, <1>7, <1>8, <1>9 DEF FinderStep

\* Every step keeps what the map shows in line with the list.
LEMMA LayerStep == CanvasInv /\ ListInv /\ LayerInv /\ [Next]_vars => LayerInv'
<1> SUFFICES ASSUME CanvasInv, ListInv, LayerInv, [Next]_vars PROVE LayerInv'
  OBVIOUS
<1>1. ASSUME layer' = EmptyLayer, ~On({"portal"})', OnFinder' => ~finder'.drawn
      PROVE  LayerInv'
  BY <1>1, EmptyDrawn DEF LayerInv
<1>2. ASSUME NEW conf \in Configurations, Arrive(conf) PROVE page = NoPage /\ layer = EmptyLayer
  BY <1>2 DEF Arrive, LayerInv, Ready
<1>3. ASSUME NEW conf \in Configurations, VisitFinder(conf) \/ VisitPicker(conf)
      PROVE  LayerInv'
  <2>1. Arrive(conf) /\ conf.kind # "portal" /\ layer' = layer
    BY <1>3 DEF VisitFinder, VisitPicker
  <2>2. config'[page'].kind = conf.kind
    BY <2>1, NewSurface
  <2>3. OnFinder' => ~finder'.drawn
    <3>1. CASE VisitFinder(conf)
      <4>1. PICK form \in Form : \/ finder' = NewFinder(form)
                                \/ FinderAttached(conf.kind = "home", NewFinder(form))
        BY <3>1 DEF VisitFinder
      <4>2. Requesting(NewFinder(form)) /\ NewFinder(form).drawn = FALSE
        BY NewAnswers DEF Answering, NewFinder
      <4> QED
        BY <4>1, <4>2, StartKeeps DEF FinderAttached, SameList
    <3>2. CASE VisitPicker(conf)
      BY <2>2, <3>2 DEF VisitPicker, OnFinder, On
    <3> QED
      BY <1>3, <3>1, <3>2
  <2> QED
    BY <1>1, <1>2, <2>1, <2>2, <2>3 DEF On
<1>4. ASSUME NEW conf \in Configurations, VisitPortal(conf) PROVE LayerInv'
  <2>1. Arrive(conf) /\ conf.kind = "portal" /\ filtered' = Station /\ PortalAttached(Station)
    BY <1>4 DEF VisitPortal
  <2>2. page' \in Canvas /\ page' # NoPage /\ config'[page'].kind = "portal"
    BY <2>1, NewSurface DEF Canvas, NoPage
  <2>3. Ready' <=> MapBuilt
    BY <2>2 DEF Ready, MapBuilt
  <2>4. ~OnFinder'
    BY <2>2 DEF OnFinder, On
  <2>5. CASE MapBuilt
    <3>1. layer' = SetMarkers(EmptyLayer, Station)
      BY <2>1, <2>5 DEF PortalAttached
    <3> QED
      BY <2>1, <2>3, <2>4, <2>5, <3>1, Drawing, EmptyDrawn DEF LayerInv
  <2>6. CASE ~MapBuilt
    <3>1. layer' = EmptyLayer
      BY <2>1, <2>6 DEF PortalAttached
    <3> QED
      BY <2>3, <2>4, <2>6, <3>1, EmptyDrawn DEF LayerInv
  <2> QED
    BY <2>5, <2>6
<1>5. ASSUME NEW station \in Station,
             layer' = (IF MapBuilt THEN SelectMarker(SetMarkers(EmptyLayer, {station}), station)
                       ELSE EmptyLayer),
             page' \in Canvas, config'[page'].kind = "detail"
      PROVE  LayerInv'
  <2>1. ~OnFinder' /\ ~On({"portal"})'
    BY <1>5 DEF OnFinder, On
  <2>2. CASE MapBuilt
    <3> DEFINE shown == SetMarkers(EmptyLayer, {station})
    <3>1. shown \in Layer /\ shown.highlighted = shown.markers \cap {shown.selected}
      BY Drawing, EmptyDrawn
    <3>2. layer' = SelectMarker(shown, station)
      BY <1>5, <2>2
    <3> HIDE DEF shown
    <3>3. layer' \in Layer /\ layer'.highlighted = layer'.markers \cap {layer'.selected}
      BY <3>1, <3>2, Drawing
    <3>4. Ready'
      BY <1>5, <2>2 DEF Ready, MapBuilt, Canvas, NoPage
    <3> QED
      BY <2>1, <3>3, <3>4 DEF LayerInv
  <2>3. CASE ~MapBuilt
    BY <1>1, <1>5, <2>1, <2>3
  <2> QED
    BY <2>2, <2>3
<1>6. ASSUME NEW conf \in Configurations, VisitDetail(conf) PROVE LayerInv'
  <2>1. Arrive(conf) /\ conf.kind = "detail" /\ DetailAttached
    BY <1>6 DEF VisitDetail
  <2> QED
    BY <1>5, <2>1, NewSurface DEF DetailAttached
<1>7. CASE Navigate
  <2>1. layer' = EmptyLayer /\ page' = NoPage
    BY <1>7 DEF Navigate, Leave
  <2> QED
    BY <1>1, <2>1 DEF OnFinder, On
<1>8. ASSUME UNCHANGED <<page, config, stage, layer, filtered>>,
             OnFinder => SameList(finder', finder)
      PROVE  LayerInv'
  <2>1. (Ready' <=> Ready) /\ (OnFinder' <=> OnFinder) /\ (On({"portal"})' <=> On({"portal"}))
    BY <1>8 DEF Ready, OnFinder, On
  <2> QED
    BY <1>8, <2>1 DEF LayerInv, SameList
<1>9. CASE LoadScript \/ FailScript \/ TimeOutScript
  <2>1. PICK broken : Continue(broken)
    BY <1>9 DEF LoadScript, FailScript, TimeOutScript, ScriptLoads, ScriptFails, ScriptTimesOut
  <2>2. Attach
    BY <1>9 DEF LoadScript, FailScript, TimeOutScript
  <2>3. page' = page /\ config' = config
    BY <2>1 DEF Continue
  <2>4. CASE page \in Waiting
    <3>1. page \in Canvas /\ page # NoPage /\ stage[page] = "loading"
      BY <2>4 DEF Waiting, Canvas, NoPage
    <3>2. layer = EmptyLayer
      BY <3>1 DEF LayerInv, Ready
    <3>3. CASE On({"portal"})
      <4>1. PortalAttached(filtered) /\ filtered' = filtered
        BY <2>2, <2>4, <3>3 DEF Attach, OnFinder, On
      <4>2. ~OnFinder' /\ (Ready' <=> MapBuilt)
        BY <2>3, <3>1, <3>3 DEF OnFinder, On, Ready, MapBuilt
      <4>3. CASE MapBuilt
        <5>1. layer' = SetMarkers(EmptyLayer, filtered)
          BY <4>1, <4>3 DEF PortalAttached
        <5>2. /\ layer' \in Layer /\ layer'.highlighted = layer'.markers \cap {layer'.selected}
              /\ layer'.markers = filtered \cap Located
          BY <5>1, EmptyDrawn DEF SetMarkers, EmptyLayer, Layer
        <5> QED
          BY <4>1, <4>2, <4>3, <5>2 DEF LayerInv
      <4>4. CASE ~MapBuilt
        <5>1. layer' = EmptyLayer
          BY <4>1, <4>4 DEF PortalAttached
        <5> QED
          BY <4>2, <4>4, <5>1, EmptyDrawn DEF LayerInv
      <4> QED
        BY <4>3, <4>4
    <3>4. CASE On({"detail"})
      <4>1. DetailAttached /\ config'[page'].kind = "detail" /\ page' \in Canvas
        BY <2>2, <2>3, <2>4, <3>1, <3>4 DEF Attach, OnFinder, On
      <4> QED
        BY <1>5, <4>1 DEF DetailAttached
    <3>5. CASE ~On({"portal"}) /\ ~On({"detail"})
      <4>1. layer' = layer
        BY <2>2, <2>4, <3>5 DEF Attach
      <4>2. ~On({"portal"})' /\ (OnFinder' <=> OnFinder)
        BY <2>3, <3>5 DEF OnFinder, On
      <4>3. ASSUME OnFinder PROVE ~finder'.drawn
        <5>1. FinderAttached(Home, finder)
          BY <2>2, <2>4, <4>3 DEF Attach, OnFinder, On
        <5>2. Requesting(finder) /\ ~finder.drawn
          BY <3>1, <4>3 DEF ListInv, LayerInv, Answering, Ready
        <5> QED
          BY <5>1, <5>2, StartKeeps DEF FinderAttached, SameList
      <4> QED
        BY <1>1, <3>2, <4>1, <4>2, <4>3
    <3> QED
      BY <3>3, <3>4, <3>5
  <2>5. CASE page \notin Waiting
    <3>1. UNCHANGED <<layer, filtered, finder>>
      BY <2>2, <2>5 DEF Attach, contentVars
    <3>2. page # NoPage => page \in Canvas
      BY Constants DEF CanvasInv, CanvasTyped, Canvas, NoPage
    <3>3. Ready' <=> Ready
      BY <2>1, <2>3, <2>5, <3>2 DEF Ready, Continue
    <3>4. (OnFinder' <=> OnFinder) /\ (On({"portal"})' <=> On({"portal"}))
      BY <2>3 DEF OnFinder, On
    <3> QED
      BY <3>1, <3>3, <3>4 DEF LayerInv
  <2> QED
    BY <2>4, <2>5
<1>10. CASE RunLateScript \/ UNCHANGED vars
  BY <1>8, <1>10 DEF RunLateScript, LateScript, contentVars, vars, adapterVars, SameList
<1>11. CASE FinderStep
  <2>1. UNCHANGED <<page, config, stage, layer, filtered>>
    BY <1>11 DEF FinderStep, adapterVars
  <2> QED
    BY <1>8, <1>11, <2>1, FinderKeeps
<1>12. ASSUME NEW key \in finder.requests, NEW found \in SUBSET Station,
              RequestSucceeds(key, found)
       PROVE  LayerInv'
  <2>1. /\ UNCHANGED <<page, config, stage>> /\ OnFinder
        /\ finder' = Answer(finder, key, found, Ready)
        /\ layer' = IF Ready THEN SetMarkers(layer, found) ELSE layer
    BY <1>12 DEF RequestSucceeds, adapterVars
  <2>2. finder'.stations = found /\ finder'.drawn = Ready
    BY <2>1 DEF Answer, ListInv, Answering, Requesting, Finder
  <2>3. (Ready' <=> Ready) /\ ~On({"portal"})'
    BY <2>1 DEF Ready, OnFinder, On
  <2>4. CASE Ready
    <3>1. layer' = SetMarkers(layer, found)
      BY <2>1, <2>4
    <3>2. /\ layer' \in Layer /\ layer'.highlighted = layer'.markers \cap {layer'.selected}
          /\ layer'.markers = found \cap Located
      BY <3>1, Drawing DEF LayerInv
    <3> QED
      BY <2>2, <2>3, <2>4, <3>2 DEF LayerInv
  <2>5. CASE ~Ready
    BY <1>1, <2>1, <2>2, <2>3, <2>5 DEF LayerInv
  <2> QED
    BY <2>4, <2>5
<1>13. ASSUME NEW list \in SUBSET Station, FilterPortal(list) PROVE LayerInv'
  <2>1. /\ UNCHANGED <<page, config, stage>> /\ On({"portal"}) /\ filtered' = list
        /\ layer' = IF Ready THEN SetMarkers(layer, list) ELSE layer
    BY <1>13 DEF FilterPortal, adapterVars
  <2>2. (Ready' <=> Ready) /\ ~OnFinder'
    BY <2>1 DEF Ready, OnFinder, On
  <2>3. CASE Ready
    <3>1. layer' = SetMarkers(layer, list)
      BY <2>1, <2>3
    <3>2. /\ layer' \in Layer /\ layer'.highlighted = layer'.markers \cap {layer'.selected}
          /\ layer'.markers = list \cap Located
      BY <3>1, Drawing DEF LayerInv
    <3> QED
      BY <2>1, <2>2, <2>3, <3>2 DEF LayerInv
  <2>4. CASE ~Ready
    BY <2>1, <2>2, <2>4 DEF LayerInv
  <2> QED
    BY <2>3, <2>4
<1>14. ASSUME NEW id \in Station, SelectInFinder(id) \/ ShowDetails(id) PROVE LayerInv'
  <2>1. /\ UNCHANGED <<page, config, stage, finder, filtered>>
        /\ layer' = IF Ready THEN SelectMarker(layer, id) ELSE layer
    BY <1>14 DEF SelectInFinder, ShowDetails, adapterVars
  <2>2. CASE Ready
    <3>1. layer' = SelectMarker(layer, id)
      BY <2>1, <2>2
    <3>2. /\ layer' \in Layer /\ layer'.highlighted = layer'.markers \cap {layer'.selected}
          /\ layer'.markers = layer.markers
      BY <3>1, Drawing DEF LayerInv
    <3>3. (Ready' <=> Ready) /\ (OnFinder' <=> OnFinder) /\ (On({"portal"})' <=> On({"portal"}))
      BY <2>1 DEF Ready, OnFinder, On
    <3> QED
      BY <2>1, <2>2, <3>2, <3>3 DEF LayerInv
  <2>3. CASE ~Ready
    BY <1>8, <2>1, <2>3 DEF SameList
  <2> QED
    BY <2>2, <2>3
<1>15. ASSUME \/ \E axis \in {"lat", "lon"}, value \in Field : TypeField(axis, value)
              \/ \E position \in Position : PlacePin(position)
       PROVE  LayerInv'
  <2>1. UNCHANGED <<page, config, stage, layer, finder, filtered>>
    BY <1>15 DEF TypeField, PlacePin, adapterVars
  <2> QED
    BY <1>8, <2>1 DEF SameList
<1> QED
  BY <1>3, <1>4, <1>6, <1>7, <1>9, <1>10, <1>11, <1>12, <1>13, <1>14, <1>15
  DEF Next, PageStep

\* The map shows what the list shows, and the selected marker alone as selected.
THEOREM MarkersCorrect == Spec => []MarkersMatchList
<1>1. Init => ListInv /\ LayerInv
  BY EmptyDrawn DEF Init, AdapterInit, ListInv, LayerInv, OnFinder, On, Ready
<1>2. LayerInv => MarkersMatchList
  BY DEF LayerInv, MarkersMatchList
<1> QED
  BY <1>1, <1>2, AdapterStart, CanvasStart, AdapterStep, CanvasStep, ListStep, LayerStep, PTL
  DEF Spec

-----------------------------------------------------------------------------
\* What the pages keep beside the invariants above.
PageTyped ==
  /\ sdk \in BOOLEAN
  /\ finder \in Finder
  /\ filtered \subseteq Station
  /\ initial \in Rendered
  /\ pin \in Position \cup {NoPin, Centre}

\* The script comes and never goes.
LEMMA ScriptTyped == sdk \in BOOLEAN /\ [AdapterNext]_adapterVars => sdk' \in BOOLEAN
<1> SUFFICES ASSUME sdk \in BOOLEAN, [AdapterNext]_adapterVars PROVE sdk' \in BOOLEAN
  OBVIOUS
<1>1. sdk' = sdk \/ sdk' = TRUE
  BY DEF AdapterNext, Arrive, Leave, ScriptLoads, ScriptFails, ScriptTimesOut, LateScript,
         adapterVars
<1> QED
  BY <1>1, Zenon

\* The blank form is one the page can show.
LEMMA BlankFinder == NoFinder \in Finder
<1>1. ABlankForm \in Form
  BY Constants DEF ABlankForm
<1> QED
  BY <1>1 DEF NoFinder, NewFinder, Finder

\* Fields that are read are a position.
LEMMA FieldsRead ==
  ASSUME NEW f \in Fields
  PROVE  /\ Valid(f) => PositionOf(f) \in Position
         /\ \A rendered \in Rendered : PinOnReady(f, rendered) \in Position \cup {Centre}
<1>1. ASSUME NEW g \in Fields, Valid(g) PROVE PositionOf(g) \in Position
  <2>1. g.lat \in Coordinate \cup {Empty} /\ g.lon \in Coordinate \cup {Empty}
    BY <1>1 DEF Fields, Field, Valid
  <2>2. Number(g.lat) \in Coordinate /\ Number(g.lon) \in Coordinate
    BY <2>1, Constants DEF Number
  <2> QED
    BY <2>2 DEF PositionOf, Position
<1>2. ASSUME NEW rendered \in Rendered
      PROVE  PinOnReady(f, rendered) \in Position \cup {Centre}
  <2> DEFINE shown == [lat |-> IF f.lat # Empty THEN f.lat ELSE rendered.lat,
                       lon |-> IF f.lon # Empty THEN f.lon ELSE rendered.lon]
  <2>1. shown \in Fields
    BY DEF Fields, Field, Rendered
  <2>2. PinOnReady(f, rendered) = IF Valid(shown) THEN PositionOf(shown) ELSE Centre
    BY DEF PinOnReady
  <2> HIDE DEF shown
  <2> QED
    BY <1>1, <2>1, <2>2
<1> QED
  BY <1>1, <1>2

\* The finder changes on its page only, or is dropped.
LEMMA FinderChanges ==
  [Next]_vars /\ CanvasInv => OnFinder' \/ finder' = finder \/ finder' = NoFinder
<1> SUFFICES ASSUME [Next]_vars, CanvasInv
             PROVE  OnFinder' \/ finder' = finder \/ finder' = NoFinder
  OBVIOUS
<1>1. ASSUME NEW conf \in Configurations, VisitFinder(conf) PROVE OnFinder'
  <2>1. Arrive(conf) /\ conf.kind \in {"home", "finder"}
    BY <1>1 DEF VisitFinder
  <2> QED
    BY <2>1, NewSurface DEF OnFinder, On, Canvas, NoPage
<1>2. ASSUME NEW conf \in Configurations,
             VisitPortal(conf) \/ VisitPicker(conf) \/ VisitDetail(conf)
      PROVE  finder' = finder
  BY <1>2 DEF VisitPortal, VisitPicker, VisitDetail
<1>3. CASE Navigate
  BY <1>3 DEF Navigate
<1>4. ASSUME OnFinder, UNCHANGED <<page, config>> PROVE OnFinder'
  BY <1>4 DEF OnFinder, On
<1>5. ASSUME Attach, UNCHANGED <<page, config>> PROVE OnFinder' \/ finder' = finder
  BY <1>4, <1>5 DEF Attach, contentVars
<1>6. CASE LoadScript \/ FailScript \/ TimeOutScript \/ RunLateScript
  BY <1>5, <1>6
  DEF LoadScript, FailScript, TimeOutScript, RunLateScript, ScriptLoads, ScriptFails,
      ScriptTimesOut, Continue, contentVars
<1>7. CASE FinderStep \/ \E key \in finder.requests, found \in SUBSET Station :
                            RequestSucceeds(key, found)
  BY <1>4, <1>7
  DEF FinderStep, ChangeForm, ViewportChanged, Refresh, GoOffline, LocationFound,
      LocationDenied, RequestFails, RequestSucceeds, adapterVars
<1>8. ASSUME ~FinderStep, PageStep,
             ~ \E key \in finder.requests, found \in SUBSET Station :
                  RequestSucceeds(key, found)
      PROVE  finder' = finder
  BY <1>8 DEF PageStep, FilterPortal, SelectInFinder, ShowDetails, TypeField, PlacePin
<1>9. CASE UNCHANGED vars
  BY <1>9 DEF vars, contentVars
<1> QED
  BY <1>1, <1>2, <1>3, <1>6, <1>7, <1>8, <1>9 DEF Next

\* Pages keep forms, lists, fields and pins of their types.
LEMMA PageTypedStep ==
  CanvasInv /\ ListInv' /\ PinInv /\ PageTyped /\ [Next]_vars => PageTyped'
<1> SUFFICES ASSUME CanvasInv, ListInv', PinInv, PageTyped, [Next]_vars PROVE PageTyped'
  OBVIOUS
<1>1. sdk' \in BOOLEAN
  BY AdapterStep, ScriptTyped DEF PageTyped
<1>2. finder' \in Finder
  BY FinderChanges, BlankFinder DEF PageTyped, ListInv, Answering, Requesting
<1> DEFINE Lists == filtered' \subseteq Station /\ initial' \in Rendered
           Pins == pin' \in Position \cup {NoPin, Centre}
<1>3. fields \in Fields /\ initial \in Rendered /\ filtered \subseteq Station
      /\ pin \in Position \cup {NoPin, Centre}
  BY DEF PinInv, PageTyped
<1>4. ASSUME UNCHANGED <<filtered, initial, pin>> PROVE Lists /\ Pins
  BY <1>3, <1>4
<1>5. ASSUME NEW conf \in Configurations, VisitPicker(conf) PROVE Lists /\ Pins
  <2>1. PICK rendered \in Rendered : initial' = rendered /\ PickerAttached(rendered, rendered)
    BY <1>5 DEF VisitPicker
  <2>2. rendered \in Fields
    BY DEF Rendered, Fields, Field
  <2>3. Pins
    BY <2>1, <2>2, FieldsRead DEF PickerAttached
  <2> QED
    BY <1>3, <1>5, <2>1, <2>3 DEF VisitPicker
<1>6. ASSUME NEW conf \in Configurations,
             VisitFinder(conf) \/ VisitPortal(conf) \/ VisitDetail(conf)
      PROVE  Lists /\ Pins
  BY <1>3, <1>6 DEF VisitFinder, VisitPortal, VisitDetail
<1>7. ASSUME Navigate PROVE Lists /\ Pins
  BY <1>7 DEF Navigate, Unset, Rendered
<1>8. ASSUME Attach PROVE Lists /\ Pins
  <2>1. CASE PickerAttached(fields, initial) /\ UNCHANGED <<filtered, initial>>
    BY <1>3, <2>1, FieldsRead DEF PickerAttached
  <2> QED
    BY <1>4, <1>8, <2>1 DEF Attach, contentVars
<1>9. ASSUME LoadScript \/ FailScript \/ TimeOutScript \/ RunLateScript PROVE Lists /\ Pins
  BY <1>4, <1>8, <1>9 DEF LoadScript, FailScript, TimeOutScript, RunLateScript, contentVars
<1>10. ASSUME NEW axis \in {"lat", "lon"}, NEW value \in Field, TypeField(axis, value)
       PROVE  Lists /\ Pins
  <2>1. fields' \in Fields
    BY <1>3, <1>10 DEF TypeField, Fields
  <2>2. pin' \in {PositionOf(fields'), pin} /\ (pin' # pin => Valid(fields'))
    BY <1>10 DEF TypeField
  <2>3. Pins
    BY <1>3, <2>1, <2>2, FieldsRead
  <2> QED
    BY <1>3, <1>10, <2>3 DEF TypeField
<1>11. ASSUME NEW position \in Position, PlacePin(position) PROVE Lists /\ Pins
  <2>1. pin' = position
    BY <1>11, PositionRead DEF PlacePin
  <2> QED
    BY <1>3, <1>11, <2>1 DEF PlacePin
<1>12. ASSUME NEW list \in SUBSET Station, FilterPortal(list) PROVE Lists /\ Pins
  BY <1>3, <1>12 DEF FilterPortal
<1>13. ASSUME NEW id \in Station, SelectInFinder(id) \/ ShowDetails(id)
       PROVE  Lists /\ Pins
  BY <1>4, <1>13 DEF SelectInFinder, ShowDetails
<1>14. ASSUME NEW key, NEW found, RequestSucceeds(key, found) PROVE Lists /\ Pins
  BY <1>4, <1>14 DEF RequestSucceeds
<1>15. ASSUME FinderStep \/ UNCHANGED vars PROVE Lists /\ Pins
  BY <1>4, <1>15 DEF FinderStep, vars, contentVars
<1> QED
  BY <1>1, <1>2, <1>5, <1>6, <1>7, <1>9, <1>10, <1>11, <1>12, <1>13, <1>14, <1>15
  DEF Next, PageStep, PageTyped

\* Adapters and pages hold values of their types, whatever is visited, typed,
\* picked or answered.
THEOREM TypeOKCorrect == Spec => []TypeOK
<1>1. Init => PageTyped /\ ListInv /\ PinInv /\ LayerInv
  <2> SUFFICES ASSUME Init PROVE PageTyped /\ ListInv /\ PinInv /\ LayerInv
    OBVIOUS
  <2>1. page = NoPage
    BY DEF Init, AdapterInit
  <2>2. PageTyped
    BY BlankFinder DEF Init, AdapterInit, PageTyped, Unset, Rendered
  <2>3. ListInv /\ PinInv
    BY <2>1
    DEF Init, ListInv, OnFinder, On, PinInv, PinIsFields, Ready, Unset, Fields, Field
  <2>4. LayerInv
    BY <2>1, EmptyDrawn DEF Init, LayerInv, Ready, OnFinder, On
  <2> QED
    BY <2>2, <2>3, <2>4
<1>2. ASSUME LoaderInv, CanvasInv, PageTyped, PinInv, LayerInv PROVE TypeOK
  <2>1. maps \in [Canvas -> SUBSET {"google", "openstreetmap"}]
    BY <1>2 DEF CanvasInv, CanvasTyped, Held
  <2>2. AdapterTypeOK
    BY <1>2, <2>1
    DEF LoaderInv, LoaderTyped, CanvasInv, CanvasTyped, PageTyped, AdapterTypeOK
  <2> QED
    BY <1>2, <2>2 DEF PageTyped, PinInv, LayerInv, TypeOK
<1> QED
  BY <1>1, <1>2, AdapterStart, LoaderStart, CanvasStart, AdapterStep, LoaderStep, ReadyStep,
     CanvasStep, ListStep, PinStep, LayerStep, PageTypedStep, PTL DEF Spec
=============================================================================
