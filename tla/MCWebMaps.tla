----------------------------- MODULE MCWebMaps -----------------------------
(***************************************************************************)
(* The settings of the pages TLC visits: one for each surface, most of     *)
(* them asking for Google, so that they may also end on OpenStreetMap or   *)
(* without a map.                                                          *)
(***************************************************************************)
EXTENDS WebMaps

Asks(kind, key, tiles) == [kind |-> kind, provider |-> "google", key |-> key, tiles |-> tiles]

MCConfigurations ==
    {Asks("home", TRUE, TRUE), Asks("finder", TRUE, TRUE), Asks("portal", TRUE, FALSE),
     Asks("picker", TRUE, TRUE), Asks("unbound", TRUE, TRUE),
     [Asks("detail", FALSE, TRUE) EXCEPT !.provider = "openstreetmap"]}

MCForm == {"all", "named"}
MCNamedForm == {"named"}
=============================================================================
