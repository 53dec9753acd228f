------------------------------ MODULE WebMaps ------------------------------
(***************************************************************************)
(* The pages with a map: the public station finder (on its own page and on *)
(* the home page), the network map of the portals, the location picker of  *)
(* a site form and the map of a station's page, each on a map created and  *)
(* destroyed by MapAdapters.  What a page shows is dropped with the page:  *)
(* a map that outlives its page is out of reach of the user.               *)
(***************************************************************************)
EXTENDS MapAdapters, MarkerLayer

CONSTANTS
    Form, NamedForm, View, NoView, NoKey, Nearby,
    Coordinate,     \* values of a latitude or a longitude
    Zero,           \* the one that is 0
    Empty, Bad,     \* a field left empty, a field that holds no coordinate
    NoPin, Centre   \* no marker, a marker at the configured default location

Position == [lat: Coordinate, lon: Coordinate]

ASSUME PickerAssumption ==
    /\ Zero \in Coordinate
    /\ {Empty, Bad} \cap Coordinate = {}
    /\ {NoPin, Centre} \cap Position = {}

INSTANCE StationFinder WITH Stations <- Station

ASSUME FinderAssumption ==
    /\ Form # {} /\ NamedForm \subseteq Form
    /\ NoView \notin View
    /\ NoKey \notin Key /\ Nearby \notin Key /\ NoKey # Nearby

VARIABLES
    layer,      \* markers of the page's map, EmptyLayer without one
    finder,     \* the finder of the page, NewFinder without one
    filtered,   \* the stations a portal map lists
    fields,     \* the latitude and longitude fields of a site form ...
    initial,    \* ... what they held when the page was rendered ...
    pin         \* ... and where the marker of the picker stands

contentVars == <<layer, finder, filtered, fields, initial, pin>>
vars == <<adapterVars, contentVars>>

Field == Coordinate \cup {Empty, Bad}
Fields == [lat: Field, lon: Field]
Rendered == [lat: Coordinate \cup {Empty}, lon: Coordinate \cup {Empty}]
Unset == [lat |-> Empty, lon |-> Empty]

ABlankForm == CHOOSE f \in Form : TRUE
NoFinder == NewFinder(ABlankForm)

\* The type invariant of the pages with a map.
TypeOK ==
    /\ AdapterTypeOK
    /\ layer \in Layer
    /\ finder \in Finder
    /\ filtered \subseteq Station
    /\ fields \in Fields
    /\ initial \in Rendered
    /\ pin \in Position \cup {NoPin, Centre}

On(kinds) == page # NoPage /\ config[page].kind \in kinds
OnFinder == On({"home", "finder"})
Ready == page # NoPage /\ stage[page] = "ready"
Home == config[page].kind = "home"

-----------------------------------------------------------------------------
\* A bug: an empty input is taken for a coordinate as it is.
NumberAsTyped(field) == field

\* The coordinate inputs, read as JavaScript numbers: an empty one is 0.
Number(field) == IF field = Empty THEN Zero ELSE field
Valid(f) == f.lat # Bad /\ f.lon # Bad
PositionOf(f) == [lat |-> Number(f.lat), lon |-> Number(f.lon)]

\* A bug: what the page was rendered with wins over what was typed since.
PinAsRendered(f, rendered) ==
    LET shown == [lat |-> IF rendered.lat # Empty THEN rendered.lat ELSE f.lat,
                  lon |-> IF rendered.lon # Empty THEN rendered.lon ELSE f.lon]
    IN  IF Valid(shown) THEN PositionOf(shown) ELSE Centre

\* Where a new picker map puts its marker: an empty field counts as it was
\* rendered.
PinOnReady(f, rendered) ==
    LET shown == [lat |-> IF f.lat # Empty THEN f.lat ELSE rendered.lat,
                  lon |-> IF f.lon # Empty THEN f.lon ELSE rendered.lon]
    IN  IF Valid(shown) THEN PositionOf(shown) ELSE Centre

-----------------------------------------------------------------------------
\* What each surface does with its map, built on the canvas, once its creation
\* is over (the primed stage and maps); it does without when there is none.
MapBuilt == stage'[page'] = "ready"

FinderAttached(home, f) ==
    \E view \in View : finder' = Started(home, f, maps'[page'], view)

PortalAttached(list) ==
    layer' = IF MapBuilt THEN SetMarkers(EmptyLayer, list) ELSE EmptyLayer

DetailAttached ==
    \E station \in Station :
        layer' = IF MapBuilt THEN SelectMarker(SetMarkers(EmptyLayer, {station}), station)
                             ELSE EmptyLayer

PickerAttached(f, rendered) ==
    pin' = IF MapBuilt THEN PinOnReady(f, rendered) ELSE NoPin

-----------------------------------------------------------------------------
\* A page is shown and its surface boots; a creation that need not wait is over
\* in the same step.  The finder reads its form from the page's address.
Over == stage'[page'] # "loading"

VisitFinder(conf) ==
    /\ conf.kind \in {"home", "finder"}
    /\ Arrive(conf)
    /\ \E form \in Form :
          IF Over THEN FinderAttached(conf.kind = "home", NewFinder(form))
                  ELSE finder' = NewFinder(form)
    /\ UNCHANGED <<layer, filtered, fields, initial, pin>>

\* The portal lists every station, with or without a map.
VisitPortal(conf) ==
    /\ conf.kind = "portal"
    /\ Arrive(conf)
    /\ filtered' = Station
    /\ PortalAttached(Station)
    /\ UNCHANGED <<finder, fields, initial, pin>>

\* The fields of the form are rendered; without them there is no picker.
VisitPicker(conf) ==
    /\ conf.kind \in {"picker", "unbound"}
    /\ Arrive(conf)
    /\ \E rendered \in Rendered :
          /\ fields' = rendered /\ initial' = rendered
          /\ PickerAttached(rendered, rendered)
    /\ UNCHANGED <<layer, finder, filtered>>

VisitDetail(conf) ==
    /\ conf.kind = "detail"
    /\ Arrive(conf)
    /\ DetailAttached
    /\ UNCHANGED <<finder, filtered, fields, initial, pin>>

\* The page goes: its listeners, its requests and its map are given up.
Navigate ==
    /\ Leave
    /\ layer' = EmptyLayer /\ finder' = NoFinder /\ filtered' = {}
    /\ fields' = Unset /\ initial' = Unset /\ pin' = NoPin

\* The loader's promise settles, for the page's creation too if it waits.
Attach ==
    \/ /\ page \in Waiting /\ OnFinder
       /\ FinderAttached(Home, finder)
       /\ UNCHANGED <<layer, filtered, fields, initial, pin>>
    \/ /\ page \in Waiting /\ On({"portal"})
       /\ PortalAttached(filtered)
       /\ UNCHANGED <<finder, filtered, fields, initial, pin>>
    \/ /\ page \in Waiting /\ On({"picker"})
       /\ PickerAttached(fields, initial)
       /\ UNCHANGED <<layer, finder, filtered, fields, initial>>
    \/ /\ page \in Waiting /\ On({"detail"})
       /\ DetailAttached
       /\ UNCHANGED <<finder, filtered, fields, initial, pin>>
    \/ page \notin Waiting /\ UNCHANGED contentVars

LoadScript == ScriptLoads /\ Attach
FailScript == ScriptFails /\ Attach
TimeOutScript == ScriptTimesOut /\ Attach
RunLateScript == LateScript /\ UNCHANGED contentVars

-----------------------------------------------------------------------------
\* The finder.  A change of a filter asks anew, a submitted form and a
\* connection that is back ask whatever is on display.
ChangeForm(form) ==
    /\ OnFinder
    /\ finder' = Fetch(Home, [finder EXCEPT !.form = form], FALSE)

Refresh == OnFinder /\ finder' = Fetch(Home, finder, TRUE)

GoOffline == OnFinder /\ finder' = [finder EXCEPT !.message = "offline"]

\* The viewport's event, 350 ms after the last move of the map.
ViewportChanged(view) ==
    /\ OnFinder /\ Ready
    /\ LET moved == [finder EXCEPT !.bounds = view]
       IN  finder' = IF Home THEN moved ELSE Fetch(Home, moved, FALSE)

LocationFound == OnFinder /\ finder' = FetchNearby(finder)

LocationDenied == OnFinder /\ finder' = [finder EXCEPT !.message = "error"]

RequestFails(key) == OnFinder /\ key \in finder.requests /\ finder' = Fail(finder, key)

FinderStep ==
    /\ \/ \E form \in Form : ChangeForm(form)
       \/ \E view \in View : ViewportChanged(view)
       \/ Refresh \/ GoOffline \/ LocationFound \/ LocationDenied
       \/ \E key \in finder.requests : RequestFails(key)
    /\ UNCHANGED <<adapterVars, layer, filtered, fields, initial, pin>>

RequestSucceeds(key, found) ==
    /\ OnFinder /\ key \in finder.requests
    /\ finder' = Answer(finder, key, found, Ready)
    /\ layer' = IF Ready THEN SetMarkers(layer, found) ELSE layer
    /\ UNCHANGED <<adapterVars, filtered, fields, initial, pin>>

\* The portal filters its list, on the map too when there is one.
FilterPortal(list) ==
    /\ On({"portal"})
    /\ filtered' = list
    /\ layer' = IF Ready THEN SetMarkers(layer, list) ELSE layer
    /\ UNCHANGED <<adapterVars, finder, fields, initial, pin>>

\* A station is picked from the list or by its marker.
SelectInFinder(id) ==
    /\ OnFinder /\ id \in finder.stations
    /\ layer' = IF Ready THEN SelectMarker(layer, id) ELSE layer
    /\ UNCHANGED <<adapterVars, finder, filtered, fields, initial, pin>>

ShowDetails(id) ==
    /\ On({"portal"}) /\ id \in filtered
    /\ layer' = IF Ready THEN SelectMarker(layer, id) ELSE layer
    /\ UNCHANGED <<adapterVars, finder, filtered, fields, initial, pin>>

\* A coordinate is typed: the marker follows when both fields are valid.
TypeField(axis, value) ==
    /\ On({"picker"})
    /\ fields' = [fields EXCEPT ![axis] = value]
    /\ pin' = IF Ready /\ Valid(fields') THEN PositionOf(fields') ELSE pin
    /\ UNCHANGED <<adapterVars, layer, finder, filtered, initial>>

\* The marker is dragged or the map clicked: the fields are filled, and their
\* change events put the marker where they say.
PlacePin(position) ==
    /\ On({"picker"}) /\ Ready
    /\ fields' = position
    /\ pin' = PositionOf(fields')
    /\ UNCHANGED <<adapterVars, layer, finder, filtered, initial>>

PageStep ==
    \/ FinderStep
    \/ \E key \in finder.requests, found \in SUBSET Station : RequestSucceeds(key, found)
    \/ \E list \in SUBSET Station : FilterPortal(list)
    \/ \E id \in Station : SelectInFinder(id) \/ ShowDetails(id)
    \/ \E axis \in {"lat", "lon"}, value \in Field : TypeField(axis, value)
    \/ \E position \in Position : PlacePin(position)

Init ==
    /\ AdapterInit
    /\ layer = EmptyLayer /\ finder = NoFinder /\ filtered = {}
    /\ fields = Unset /\ initial = Unset /\ pin = NoPin

Next ==
    \/ \E conf \in Configurations :
          VisitFinder(conf) \/ VisitPortal(conf) \/ VisitPicker(conf) \/ VisitDetail(conf)
    \/ Navigate \/ LoadScript \/ FailScript \/ TimeOutScript \/ RunLateScript
    \/ PageStep

Spec == Init /\ [][Next]_vars

\* The browser fires the loader's timer unless the load is over before.
FairSpec == Spec /\ WF_vars(TimeOutScript)

-----------------------------------------------------------------------------
\* The list of the finder answers what its form and its viewport ask by now,
\* unless that query is under way, failed or gave way to the driver's position;
\* and the finder says that it loads only while a request is under way.
ListAnswersForm ==
    OnFinder =>
        /\ finder.lastRequestKey # NoKey =>
              /\ finder.lastRequestKey = KeyOf(Home, finder)
              /\ \/ finder.requests = {finder.lastRequestKey}
                 \/ finder.requests = {} /\ finder.answered = finder.lastRequestKey
        /\ finder.message = "loading" => finder.requests # {}

\* The map shows what the list shows: the portal's markers are the filtered
\* stations, even those filtered while the map was loading; the finder's are
\* the listed ones, but for a list that was answered while the map was loading,
\* which is not drawn until the next answer (station-map.js, fetchStations); and
\* of all markers the selected one alone is drawn as selected, filtered away and
\* back or not.
MarkersMatchList ==
    Ready =>
        /\ On({"portal"}) => layer.markers = filtered \cap Located
        /\ OnFinder => layer.markers = IF finder.drawn THEN finder.stations \cap Located
                                       ELSE {}
        /\ layer.highlighted = layer.markers \cap {layer.selected}

\* The coordinate fields of a site form are authoritative: two valid
\* coordinates, typed while the map was loading, typed since or set by the
\* marker itself, are where the marker stands.
PinIsFields ==
    Ready /\ On({"picker"}) /\ fields \in Position => pin = fields
=============================================================================
