--------------------------- MODULE StationFinder ---------------------------
(***************************************************************************)
(* The public station finder, as functions of its state: which query its   *)
(* form and its viewport ask, when it asks the server, and what an answer, *)
(* a failure or a newer query do to its list.  Only the last request can   *)
(* be answered: the ones before it were aborted.                           *)
(***************************************************************************)
CONSTANTS
    Form,       \* the states of the filter form
    NamedForm,  \* those that search a station by name
    View,       \* viewports of the map
    Stations,   \* the stations the server may answer with
    NoView, NoKey,
    Nearby      \* stands for the request around the driver's position

Key == [form: Form, view: View \cup {NoView}]

Finder ==
    [form: Form,
     bounds: View \cup {NoView},
     lastRequestKey: Key \cup {NoKey},
     requests: SUBSET (Key \cup {Nearby}),      \* sent, neither over nor aborted
     stations: SUBSET Stations,                 \* the list on display ...
     answered: Key \cup {Nearby, NoKey},        \* ... the query it answers ...
     drawn: BOOLEAN,                            \* ... and whether the map was there
     message: {"none", "loading", "empty", "error", "offline"}]

\* The constructor, with the form filled from the page's address.
NewFinder(form) ==
    [form |-> form, bounds |-> NoView, lastRequestKey |-> NoKey, requests |-> {},
     stations |-> {}, answered |-> NoKey, drawn |-> FALSE,
     message |-> "none"]

\* The home map and a search by name ask for every station, else the viewport
\* limits the answer.
KeyOf(home, f) ==
    [form |-> f.form,
     view |-> IF home \/ f.form \in NamedForm THEN NoView ELSE f.bounds]

\* A bug: the query under way is not aborted by the new one.
FetchBeside(home, f, force) ==
    IF ~force /\ KeyOf(home, f) = f.lastRequestKey THEN f
    ELSE [f EXCEPT !.lastRequestKey = KeyOf(home, f),
                   !.requests = @ \cup {KeyOf(home, f)},
                   !.message = IF f.stations = {} THEN "loading" ELSE @]

\* fetchStations: the query that is under way or on display is not sent again
\* unless forced; a new one aborts the one under way.
Fetch(home, f, force) ==
    IF ~force /\ KeyOf(home, f) = f.lastRequestKey THEN f
    ELSE [f EXCEPT !.lastRequestKey = KeyOf(home, f),
                   !.requests = {KeyOf(home, f)},
                   !.message = IF f.stations = {} THEN "loading" ELSE @]

\* A position from the browser: fetchUrl asks around it.
FetchNearby(f) ==
    [f EXCEPT !.bounds = NoView, !.lastRequestKey = NoKey,
              !.requests = {Nearby}, !.message = "loading"]

\* An answer replaces the list; it is drawn when the map is there.
Answer(f, key, found, ready) ==
    [f EXCEPT !.requests = @ \ {key}, !.stations = found, !.answered = key,
              !.drawn = ready, !.message = IF found = {} THEN "empty" ELSE "none"]

\* A failed request leaves the list; the query may be sent again.
Fail(f, key) ==
    [f EXCEPT !.requests = @ \ {key},
              !.lastRequestKey = IF key = Nearby THEN @ ELSE NoKey,
              !.message = "error"]

\* getVisibleBounds of a map that was just created: a Google map has none yet.
VisibleBounds(built, view) == IF built = {"openstreetmap"} THEN view ELSE NoView

\* The end of start: the map of the finder is there, or it was given up, and the
\* first fetch is limited to what the map shows.
Started(home, f, built, view) ==
    LET seen == IF home \/ built = {} THEN f.bounds ELSE VisibleBounds(built, view)
    IN  Fetch(home, [f EXCEPT !.bounds = seen], FALSE)
=============================================================================
