----------------------------- MODULE SearchPage -----------------------------
(***************************************************************************)
(* The page a user searches on: App.tsx keeps the two circles, their undo  *)
(* history and the search; MapView.tsx keeps the drag in progress and what *)
(* Leaflet shows.  An action is one browser event, with the renders and    *)
(* effects React runs for it before the next event is delivered.           *)
(*                                                                         *)
(* An effect runs again when its dependencies change and only then, so a   *)
(* marker's dragend handler keeps the circle of the render that made it.   *)
(***************************************************************************)
EXTENDS Naturals, Sequences, SequencesExt

CONSTANTS
    Places,       \* points of the map
    Radii,        \* radii between MIN_RADIUS_KM and MAX_RADIUS_KM
    MinRadius,    \* MIN_RADIUS_KM
    MaxHistory,   \* bound on the undo history
    MaxSearches,  \* bound on the searches
    None

ASSUME PageConstantsOK ==
    /\ MinRadius \in Radii
    /\ MaxHistory \in Nat /\ MaxSearches \in Nat

VARIABLES
    circle,    \* origin and dest, React state
    history,   \* historyRef
    layer,     \* what Leaflet has for each circle
    drag,      \* dragStateRef
    previews,  \* preview circles on the map
    space,     \* isSpacePressed
    confirm,   \* is the reset bar open?
    search,    \* the search form and the results panel
    polling,   \* searches whose poll loop is running
    chord      \* history: what was pressed with the mouse down so far

editor == <<circle, history, layer, drag, previews, space, confirm, chord>>
vars == <<editor, search, polling>>

MaxPreviews == 2  \* bound: two mouse buttons

Ends    == {"origin", "dest"}
Circle  == [at : Places, radius : Radii]
Circles == [Ends -> Circle \cup {None}]
Drag    == [target : Ends, at : Places]
NoCircles == [e \in Ends |-> None]
NoLayer == [shown |-> None, marker |-> None, captured |-> None]
NoSearch == [date |-> FALSE, searching |-> FALSE, panel |-> FALSE,
             results |-> 0, error |-> 0, latest |-> 0]

\* null is no circle and no drag.
ASSUME NoneIsNull == None \notin Places /\ None \notin Circle /\ None \notin Drag

Init ==
    /\ circle = NoCircles
    /\ history = <<>>
    /\ layer = [e \in Ends |-> NoLayer]
    /\ drag = None
    /\ previews = 0
    /\ space = FALSE
    /\ confirm = FALSE
    /\ search = NoSearch
    /\ polling = {}
    /\ chord = {}

-----------------------------------------------------------------------------
(* Effects of a new state of the circles *)

\* Mutant: the update effect moves the layer and leaves its radius.
Updated_CentreOnly(old, c) ==
    [old EXCEPT !.shown = [at |-> c.at, radius |-> @.radius], !.marker = c.at]

\* setLatLng and setRadius on the layers that are there.
Updated(old, c) == [old EXCEPT !.shown = c, !.marker = c.at]

\* Mutant: a removed circle's marker is hidden, and shown again with its handler.
Rendered_MarkerReused(e, c) ==
    IF c = None THEN [layer[e] EXCEPT !.shown = None, !.marker = None]
    ELSE IF layer[e] = NoLayer THEN [shown |-> c, marker |-> c.at, captured |-> c]
    ELSE Updated(layer[e], c)

\* Layers are made and removed when a circle comes or goes, and updated when
\* its centre or radius changes; only making one makes its handler.
Rendered(e, c) ==
    IF c = None THEN NoLayer
    ELSE IF circle[e] = None THEN [shown |-> c, marker |-> c.at, captured |-> c]
    ELSE Updated(layer[e], c)

SetCircles(new) ==
    /\ circle' = new
    /\ layer' = [e \in Ends |-> Rendered(e, new[e])]

PushHistory == Len(history) < MaxHistory /\ history' = Append(history, circle)

-----------------------------------------------------------------------------
(* MapView: drawing and moving *)

\* The circle that is drawn next.
Target == IF circle["origin"] = None THEN "origin"
          ELSE IF circle["dest"] = None THEN "dest" ELSE None

\* A second button down replaces the drag and leaves its preview on the map.
MouseDown ==
    /\ Target # None /\ ~space
    /\ chord' = IF drag = None THEN chord ELSE chord \cup {"button"}
    /\ previews < MaxPreviews
    /\ \E p \in Places : drag' = [target |-> Target, at |-> p]
    /\ previews' = previews + 1
    /\ UNCHANGED <<circle, history, layer, space, confirm, search, polling>>

\* Mutant: the circle is set before the history entry is taken from it.
Settle_PushesAfter(e, c) ==
    LET new == [circle EXCEPT ![e] = c] IN
    /\ Len(history) < MaxHistory /\ history' = Append(history, new)
    /\ SetCircles(new)

Settle(e, c) == PushHistory /\ SetCircles([circle EXCEPT ![e] = c])

\* A drag under MIN_DRAG_PX is a click and draws the smallest circle.
MouseUp ==
    /\ drag # None
    /\ \E r \in Radii : Settle(drag.target, [at |-> drag.at, radius |-> r])
    /\ drag' = None
    /\ previews' = previews - 1
    /\ UNCHANGED <<space, confirm, search, polling, chord>>

\* Mutant: the preview stays on the map.
CancelDraw_Leaks == drag' = None /\ UNCHANGED previews

\* Mutant: the preview is counted out without a drag.
CancelDraw_NoCheck == drag' = None /\ previews' = previews - 1

\* handleMouseCancel
CancelDraw ==
    /\ drag' = None
    /\ previews' = IF drag = None THEN previews ELSE previews - 1

MouseOut ==
    /\ drag # None
    /\ CancelDraw
    /\ UNCHANGED <<circle, history, layer, space, confirm, search, polling, chord>>

\* dragend of a marker: the circle its handler captured, at the new place.
MoveMarker(e) ==
    /\ circle[e] # None /\ drag = None
    /\ \E p \in Places :
        SetCircles([circle EXCEPT ![e] = [layer[e].captured EXCEPT !.at = p]])
    /\ UNCHANGED <<history, drag, previews, space, confirm, search, polling, chord>>

Space ==
    /\ space' = ~space
    /\ UNCHANGED <<circle, history, layer, drag, previews, confirm, search, polling, chord>>

-----------------------------------------------------------------------------
(* App: keys, undo, reset *)

Key == chord' = IF drag = None THEN chord ELSE chord \cup {"key"}

\* Escape in App: the destination goes first, then the origin.
RemoveLast ==
    LET e == IF circle["dest"] # None THEN "dest" ELSE "origin" IN
    /\ PushHistory
    /\ SetCircles([circle EXCEPT ![e] = None])

\* Both components listen.  With the reset bar open App only closes it.  If App
\* removes a circle, MapView's listener is registered anew: when App's ran
\* first, MapView's misses this event and the drag goes on.
Escape ==
    /\ Key
    /\ IF confirm \/ circle = NoCircles
       THEN /\ confirm' = FALSE
            /\ CancelDraw
            /\ UNCHANGED <<circle, history, layer>>
       ELSE /\ RemoveLast
            /\ CancelDraw \/ UNCHANGED <<drag, previews>>
            /\ UNCHANGED confirm
    /\ UNCHANGED <<space, search, polling>>

\* Ctrl+Z
Undo ==
    /\ Key /\ ~confirm /\ history # <<>>
    /\ SetCircles(Last(history))
    /\ history' = Front(history)
    /\ UNCHANGED <<drag, previews, space, confirm, search, polling>>

\* R, or the Reset button.
RequestReset ==
    /\ Key /\ ~confirm /\ circle # NoCircles
    /\ confirm' = TRUE
    /\ UNCHANGED <<circle, history, layer, drag, previews, space, search, polling>>

\* Cancel, or six seconds.
CancelReset ==
    /\ confirm /\ confirm' = FALSE
    /\ UNCHANGED <<circle, history, layer, drag, previews, space, search, polling, chord>>

\* Mutant: reset also ends the "searching" state, though the poll goes on.
ClearedSearch_Idle == [NoSearch EXCEPT !.latest = search.latest]

\* The form and the panel are cleared; a search in flight stays in flight.
ClearedSearch ==
    [search EXCEPT !.date = FALSE, !.panel = FALSE, !.results = 0, !.error = 0]

ConfirmReset ==
    /\ confirm /\ confirm' = FALSE
    /\ IF circle = NoCircles THEN UNCHANGED <<circle, history, layer, search>>
       ELSE /\ history' = <<>>
            /\ SetCircles(NoCircles)
            /\ search' = ClearedSearch
    /\ UNCHANGED <<drag, previews, space, polling, chord>>

-----------------------------------------------------------------------------
(* App: handleSearch and the results panel *)

PickDate ==
    /\ \E d \in BOOLEAN : search' = [search EXCEPT !.date = d]
    /\ UNCHANGED <<editor, polling>>

CanSearch == circle["origin"] # None /\ circle["dest"] # None
             /\ search.date /\ ~search.searching

\* Searches are numbered as they are submitted.
FindFlights ==
    LET n == search.latest + 1 IN
    /\ CanSearch /\ search.latest < MaxSearches
    /\ search' = [search EXCEPT !.searching = TRUE, !.panel = TRUE, !.results = 0,
                                !.error = 0, !.latest = n]
    /\ polling' = polling \cup {n}
    /\ UNCHANGED editor

\* A final status: its fares are shown, whatever happened to the page since.
ShowResults(n) ==
    /\ n \in polling /\ polling' = polling \ {n}
    /\ search' = [search EXCEPT !.results = n, !.searching = FALSE]
    /\ UNCHANGED editor

\* Submitting or polling failed.
SearchFails(n) ==
    /\ n \in polling /\ polling' = polling \ {n}
    /\ search' = [search EXCEPT !.error = n, !.searching = FALSE]
    /\ UNCHANGED editor

ClosePanel ==
    /\ search.panel
    /\ search' = [search EXCEPT !.panel = FALSE, !.results = 0, !.error = 0]
    /\ UNCHANGED <<editor, polling>>

Next ==
    \/ MouseDown \/ MouseUp \/ MouseOut \/ \E e \in Ends : MoveMarker(e)
    \/ Space \/ Escape \/ Undo \/ RequestReset \/ CancelReset \/ ConfirmReset
    \/ PickDate \/ FindFlights \/ ClosePanel
    \/ \E n \in polling : ShowResults(n) \/ SearchFails(n)

Spec == Init /\ [][Next]_vars

-----------------------------------------------------------------------------
(* Properties *)

Layer == [shown : Circle \cup {None}, marker : Places \cup {None},
          captured : Circle \cup {None}]

\* Every variable has its type.
TypeOK ==
    /\ circle \in Circles
    /\ history \in Seq(Circles) /\ Len(history) <= MaxHistory
    /\ layer \in [Ends -> Layer]
    /\ drag \in Drag \cup {None}
    /\ previews \in 0 .. MaxPreviews
    /\ space \in BOOLEAN /\ confirm \in BOOLEAN
    /\ search \in [date : BOOLEAN, searching : BOOLEAN, panel : BOOLEAN,
                   results : 0 .. MaxSearches, error : 0 .. MaxSearches,
                   latest : 0 .. MaxSearches]
    /\ polling \subseteq 1 .. MaxSearches
    /\ chord \subseteq {"key", "button"}

\* The map shows the circles that will be searched, with their markers, after
\* any order of drawing, moving, Esc, undo and reset, mouse down or not: the
\* effects' dependencies leave out no change that matters.
MapShowsCircles ==
    \A e \in Ends :
        /\ layer[e].shown = circle[e]
        /\ layer[e].marker = IF circle[e] = None THEN None ELSE circle[e].at

Comings(before, after) == {e \in Ends : (before[e] = None) # (after[e] = None)}

\* One circle came or went; the other stayed, or stayed away, and kept its size.
OneDraw(before, after) ==
    \E e \in Ends :
        /\ Comings(before, after) = {e}
        /\ \A f \in Ends \ {e} : before[f] # None => after[f].radius = before[f].radius

\* The history holds the state before each drawing and each removal of a circle,
\* and it and the present differ step by step in one of them: undo takes back one,
\* never two and never none, with the moves made since, which push no state of
\* their own; unless keys were pressed during a drag.
UndoTakesBackOneDraw ==
    LET states == Append(history, circle) IN
    "key" \notin chord =>
        \A i \in 1 .. Len(history) : OneDraw(states[i], states[i + 1])

\* Moving a marker never changes a circle's size, although its handler holds the
\* circle of an earlier render, unless keys were pressed during a drag.
MoveKeepsRadius ==
    [][\A e \in Ends :
        "key" \notin chord /\ Len(history') = Len(history)
            /\ circle[e] # None /\ circle'[e] # None
            => circle'[e].radius = circle[e].radius]_vars

\* With one mouse button there is a preview on the map exactly during a drag.
NoStrayPreview == "button" \notin chord => previews = IF drag = None THEN 0 ELSE 1

\* The open panel never shows the fares or the error of another search than the
\* last one, whatever was reset or closed while one was in flight.
PanelShowsLatest ==
    search.panel => {search.results, search.error} \subseteq {0, search.latest}
=============================================================================
