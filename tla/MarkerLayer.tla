---------------------------- MODULE MarkerLayer ----------------------------
(***************************************************************************)
(* What a map adapter shows of a list of stations: its markers, the marker *)
(* selected last, which it remembers even when that marker is not there,   *)
(* and the markers whose icon is drawn as selected.  Both adapters keep    *)
(* the three alike.                                                        *)
(***************************************************************************)
CONSTANTS
    Station,
    Located,    \* the stations whose coordinates are valid
    NoStation

ASSUME MarkerAssumption == Located \subseteq Station /\ NoStation \notin Station

Layer == [markers: SUBSET Located,
          selected: Station \cup {NoStation},
          highlighted: SUBSET Located]

EmptyLayer == [markers |-> {}, selected |-> NoStation, highlighted |-> {}]

\* A bug: markers of stations no longer listed stay on the map.
AddMarkers(layer, stations) ==
    LET next == layer.markers \cup (stations \cap Located) IN
    [layer EXCEPT !.markers = next, !.highlighted = next \cap {layer.selected}]

\* setMarkers: stations without valid coordinates get no marker; the icons of
\* old and new markers are drawn again.
SetMarkers(layer, stations) ==
    LET next == stations \cap Located IN
    [layer EXCEPT !.markers = next, !.highlighted = next \cap {layer.selected}]

\* selectMarker: the icon of the previous selection is drawn again, then that of
\* the new one when it has a marker.
SelectMarker(layer, id) ==
    [layer EXCEPT !.selected = id,
                  !.highlighted = (@ \ {layer.selected}) \cup (layer.markers \cap {id})]
=============================================================================
