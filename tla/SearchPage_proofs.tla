-------------------------- MODULE SearchPage_proofs --------------------------
(***************************************************************************)
(* Proofs about SearchPage for any places and radii, any length of the     *)
(* history and any number of searches.                                     *)
(***************************************************************************)
EXTENDS SearchPage, SequenceTheorems, TLAPS

-----------------------------------------------------------------------------
(* The inductive invariant *)

\* A drag has its preview.
PreviewInv ==
    /\ drag # None => previews > 0
    /\ NoStrayPreview

\* A marker's handler has captured a circle.
LayerInv ==
    /\ MapShowsCircles
    /\ \A e \in Ends : circle[e] # None => layer[e].captured # None

\* The state that followed entry i of the history.
After(i) == IF i = Len(history) THEN circle ELSE history[i + 1]

\* Unless keys were pressed during a drag, the circle being drawn is not there yet,
\* a handler holds the size its circle still has, and so do the states before it.
EditInv ==
    "key" \notin chord =>
        /\ drag # None => circle[drag.target] = None
        /\ \A e \in Ends : circle[e] # None => layer[e].captured.radius = circle[e].radius
        /\ \A i \in 1 .. Len(history) : OneDraw(history[i], After(i))

\* One search at most is under way, the last one; results and errors are its.
SearchInv ==
    /\ polling = IF search.searching THEN {search.latest} ELSE {}
    /\ {search.results, search.error} \subseteq {0, search.latest}

IInv == TypeOK /\ PreviewInv /\ LayerInv /\ EditInv /\ SearchInv

-----------------------------------------------------------------------------
(* What a new state of the circles does, and what an edit adds to the history *)

LEMMA SetEffect ==
    ASSUME TypeOK, LayerInv, NEW new \in Circles, SetCircles(new)
    PROVE  /\ circle' = new /\ layer' \in [Ends -> Layer] /\ LayerInv'
           /\ \A e \in Ends : circle[e] = None /\ new[e] # None => layer'[e].captured = new[e]
           /\ \A e \in Ends : circle[e] # None /\ new[e] # None
                                => layer'[e].captured = layer[e].captured
<1>1. circle' = new /\ layer' = [e \in Ends |-> Rendered(e, new[e])]
  BY DEF SetCircles
<1>2. ASSUME NEW e \in Ends
      PROVE  /\ Rendered(e, new[e]) \in Layer
             /\ Rendered(e, new[e]).shown = new[e]
             /\ Rendered(e, new[e]).marker = IF new[e] = None THEN None ELSE new[e].at
             /\ new[e] # None => Rendered(e, new[e]).captured # None
             /\ circle[e] = None /\ new[e] # None => Rendered(e, new[e]).captured = new[e]
             /\ circle[e] # None /\ new[e] # None => Rendered(e, new[e]).captured = layer[e].captured
  <2>1. layer[e] \in Layer /\ (circle[e] # None => layer[e].captured # None)
    BY DEF TypeOK, LayerInv
  <2>2. CASE new[e] = None
    BY <2>2 DEF Rendered, NoLayer, Layer
  <2>3. CASE new[e] # None
    <3>1. new[e] \in Circle /\ new[e].at \in Places
      BY <2>3 DEF Circles, Circle
    <3> DEFINE c == new[e]
    <3> HIDE DEF c
    <3>2. CASE circle[e] = None
      <4>1. Rendered(e, new[e]) = [shown |-> new[e], marker |-> new[e].at, captured |-> new[e]]
        BY <2>3, <3>2 DEF Rendered
      <4> QED BY <2>3, <3>1, <3>2, <4>1 DEF Layer
    <3>3. CASE circle[e] # None
      <4>1. Rendered(e, new[e]) = [layer[e] EXCEPT !.shown = new[e], !.marker = new[e].at]
        BY <2>3, <3>3 DEF Rendered, Updated
      <4> QED BY <2>1, <2>3, <3>1, <3>3, <4>1 DEF Layer
    <3> QED BY <3>2, <3>3
  <2> QED BY <2>2, <2>3
<1>3. layer' \in [Ends -> Layer]
  BY <1>1, <1>2
<1>4. LayerInv'
  BY <1>1, <1>2 DEF LayerInv, MapShowsCircles
<1> QED BY <1>1, <1>2, <1>3, <1>4

\* The history as a sequence of edits: of drawings and removals.
Edits == \A i \in 1 .. Len(history) : OneDraw(history[i], After(i))
Handlers == \A e \in Ends : circle[e] # None => layer[e].captured.radius = circle[e].radius

LEMMA PushEffect ==
    ASSUME TypeOK, PushHistory
    PROVE  /\ history' \in Seq(Circles) /\ Len(history') <= MaxHistory
           /\ Len(history') = Len(history) + 1 /\ Len(history) \in Nat
           /\ \A i \in 1 .. Len(history) : history'[i] = history[i]
           /\ history'[Len(history) + 1] = circle
<1>1. history \in Seq(Circles) /\ circle \in Circles /\ Len(history) \in Nat
  BY LenProperties DEF TypeOK
<1>2. history' = Append(history, circle) /\ Len(history) < MaxHistory
  BY DEF PushHistory
<1> QED BY <1>1, <1>2, AppendProperties, PageConstantsOK

\* An edit is one more entry.
LEMMA EditsGrow ==
    ASSUME TypeOK, PushHistory, Edits, OneDraw(circle, circle')
    PROVE  Edits'
<1>1. /\ Len(history') = Len(history) + 1 /\ Len(history) \in Nat
      /\ \A i \in 1 .. Len(history) : history'[i] = history[i]
      /\ history'[Len(history) + 1] = circle
  BY PushEffect
<1> SUFFICES ASSUME NEW i \in 1 .. Len(history') PROVE OneDraw(history'[i], After(i)')
  BY DEF Edits, OneDraw, Comings, After
<1>2. CASE i = Len(history) + 1
  BY <1>1, <1>2 DEF After
<1>3. CASE i < Len(history) + 1
  <2>1. i \in 1 .. Len(history) /\ history'[i] = history[i] /\ OneDraw(history[i], After(i))
    BY <1>1, <1>3 DEF Edits
  <2>2. After(i)' = After(i)
    BY <1>1, <1>3, <2>1 DEF After
  <2> QED BY <2>1, <2>2
<1> QED BY <1>1, <1>2, <1>3

\* Undo takes the last entry, and with it the last edit, off.
LEMMA UndoEffect ==
    ASSUME TypeOK, history # <<>>, history' = Front(history), circle' = Last(history)
    PROVE  /\ history' \in Seq(Circles) /\ Len(history') <= MaxHistory
           /\ Len(history') = Len(history) - 1 /\ Len(history) \in Nat \ {0}
           /\ circle' = history[Len(history)] /\ circle' \in Circles
           /\ Edits => Edits' /\ OneDraw(circle', circle)
<1>1. history \in Seq(Circles) /\ Len(history) \in Nat \ {0} /\ Len(history) <= MaxHistory
  BY LenProperties, EmptySeq DEF TypeOK
<1>2. /\ history' \in Seq(Circles) /\ Len(history') = Len(history) - 1
      /\ \A i \in 1 .. Len(history) - 1 : history'[i] = history[i]
  <2> DEFINE n == Len(history) - 1
             s == SubSeq(history, 1, n)
  <2>1. n \in Nat /\ 1 \in Int /\ n \in Int /\ \A i \in 1 .. n : history[i] \in Circles
    BY <1>1, ElementOfSeq
  <2>2. history' = s
    BY DEF Front
  <2> HIDE DEF n
  <2>3. /\ s \in Seq(Circles) /\ Len(s) = IF 1 <= n THEN n - 1 + 1 ELSE 0
        /\ \A i \in 1 .. n - 1 + 1 : s[i] = history[1 + i - 1]
    BY <2>1, SubSeqProperties
  <2> HIDE DEF s
  <2>4. Len(s) = n
    BY <2>1, <2>3
  <2>5. \A i \in 1 .. n : s[i] = history[i]
    <3> SUFFICES ASSUME NEW i \in 1 .. n PROVE s[i] = history[i]
      OBVIOUS
    <3>1. i \in 1 .. n - 1 + 1 /\ 1 + i - 1 = i
      BY <2>1
    <3>2. s[i] = history[1 + i - 1]
      BY <2>3, <3>1
    <3> QED BY <3>1, <3>2
  <2> QED BY <2>2, <2>3, <2>4, <2>5 DEF n
<1>3. circle' = history[Len(history)] /\ circle' \in Circles
  BY <1>1, ElementOfSeq DEF Last
<1>4. Len(history') <= MaxHistory
  BY <1>1, <1>2, PageConstantsOK
<1>5. ASSUME Edits PROVE Edits' /\ OneDraw(circle', circle)
  <2>1. OneDraw(circle', circle)
    <3>1. Len(history) \in 1 .. Len(history) /\ After(Len(history)) = circle
      BY <1>1 DEF After
    <3> QED BY <1>3, <1>5, <3>1 DEF Edits
  <2>2. ASSUME NEW i \in 1 .. Len(history') PROVE OneDraw(history'[i], After(i)')
    <3>1. i \in 1 .. Len(history) /\ i \in 1 .. Len(history) - 1 /\ i # Len(history)
      BY <1>1, <1>2
    <3>2. history'[i] = history[i] /\ OneDraw(history[i], After(i))
      BY <1>2, <1>5, <3>1 DEF Edits
    <3>3. After(i) = history[i + 1]
      BY <3>1 DEF After
    <3>4. After(i)' = history[i + 1]
      <4>1. CASE i = Len(history')
        BY <1>1, <1>2, <1>3, <4>1 DEF After
      <4>2. CASE i # Len(history')
        <5>1. i + 1 \in 1 .. Len(history) - 1
          BY <1>1, <1>2, <4>2
        <5> QED BY <1>2, <4>2, <5>1 DEF After
      <4> QED BY <4>1, <4>2
    <3> QED BY <3>2, <3>3, <3>4
  <2> QED BY <2>1, <2>2 DEF Edits
<1> QED BY <1>1, <1>2, <1>3, <1>4, <1>5

\* A circle that is moved, and keeps its size, is no edit.
LEMMA EditsStay ==
    ASSUME Edits, UNCHANGED history,
           \A e \in Ends : (circle'[e] = None) = (circle[e] = None),
           \A e \in Ends : circle[e] # None => circle'[e].radius = circle[e].radius
    PROVE  Edits'
<1> SUFFICES ASSUME NEW i \in 1 .. Len(history) PROVE OneDraw(history[i], After(i)')
  BY DEF Edits
<1>1. OneDraw(history[i], After(i))
  BY DEF Edits
<1>2. CASE i # Len(history)
  BY <1>1, <1>2 DEF After
<1>3. CASE i = Len(history)
  <2>1. OneDraw(history[i], circle) /\ After(i)' = circle'
    BY <1>1, <1>3 DEF After
  <2>2. Comings(history[i], circle') = Comings(history[i], circle)
    BY DEF Comings
  <2>3. PICK e \in Ends : /\ Comings(history[i], circle) = {e}
                          /\ \A f \in Ends \ {e} : history[i][f] # None
                               => circle[f].radius = history[i][f].radius
    BY <2>1 DEF OneDraw
  <2>4. ASSUME NEW f \in Ends \ {e}, history[i][f] # None
        PROVE  circle'[f].radius = history[i][f].radius
    <3>1. circle[f] # None
      BY <2>3, <2>4 DEF Comings
    <3> QED BY <2>3, <2>4, <3>1
  <2> QED BY <2>1, <2>2, <2>3, <2>4 DEF OneDraw
<1> QED BY <1>2, <1>3

-----------------------------------------------------------------------------
(* The map *)

\* The whole invariant from its parts.
LEMMA Parts ==
    ASSUME IInv
    PROVE  /\ TypeOK /\ PreviewInv /\ LayerInv /\ SearchInv /\ MapShowsCircles
           /\ "key" \notin chord => Edits /\ Handlers /\ (drag # None => circle[drag.target] = None)
           /\ circle \in Circles /\ drag \in Drag \cup {None} /\ previews \in Nat
           /\ layer \in [Ends -> Layer] /\ history \in Seq(Circles) /\ chord \subseteq {"key", "button"}
BY DEF IInv, EditInv, Edits, Handlers, LayerInv, TypeOK

\* The steps that leave the search alone.
LEMMA EditorStep ==
    ASSUME IInv, LayerInv', PreviewInv', circle' \in Circles, layer' \in [Ends -> Layer],
           history' \in Seq(Circles), Len(history') <= MaxHistory, drag' \in Drag \cup {None},
           previews' \in 0 .. MaxPreviews, space' \in BOOLEAN, confirm' \in BOOLEAN,
           chord' \in SUBSET {"key", "button"}, UNCHANGED <<search, polling>>,
           "key" \notin chord' => /\ Edits' /\ Handlers'
                                  /\ drag' # None => circle'[drag'.target] = None
    PROVE  IInv'
<1>1. TypeOK' /\ SearchInv'
  BY DEF IInv, TypeOK, SearchInv
<1>2. EditInv'
  BY DEF EditInv, Edits, Handlers
<1> QED BY <1>1, <1>2 DEF IInv

\* The steps that leave the circles and their history alone.
LEMMA MapStep ==
    ASSUME IInv, UNCHANGED <<circle, history, layer>>
    PROVE  /\ LayerInv' /\ circle' \in Circles /\ layer' \in [Ends -> Layer]
           /\ history' \in Seq(Circles) /\ Len(history') <= MaxHistory
           /\ Edits = Edits' /\ Handlers = Handlers'
BY DEF IInv, TypeOK, LayerInv, MapShowsCircles, Edits, OneDraw, Comings, After, Handlers

LEMMA MouseDownInv ==
    ASSUME IInv, MouseDown
    PROVE  IInv'
<1>1. PICK p \in Places : drag' = [target |-> Target, at |-> p]
  BY DEF MouseDown
<1>2. /\ Target \in Ends /\ circle[Target] = None
      /\ previews' = previews + 1 /\ previews < MaxPreviews
      /\ chord' = IF drag = None THEN chord ELSE chord \cup {"button"}
      /\ UNCHANGED <<circle, history, layer, space, confirm, search, polling>>
  BY DEF MouseDown, Target, Ends
<1>3. drag' \in Drag /\ drag' # None /\ circle'[drag'.target] = None
  BY <1>1, <1>2, NoneIsNull DEF Drag
<1>4. PreviewInv' /\ previews' \in 0 .. MaxPreviews
  BY <1>2, <1>3, Parts DEF PreviewInv, NoStrayPreview, MaxPreviews
<1>5. chord' \in SUBSET {"key", "button"} /\ ("key" \notin chord' => "key" \notin chord)
  BY <1>2, Parts
<1>6. "key" \notin chord' => Edits' /\ Handlers'
  BY <1>2, <1>5, Parts, MapStep
<1> QED BY <1>2, <1>3, <1>4, <1>5, <1>6, MapStep, EditorStep DEF IInv, TypeOK

LEMMA MouseUpInv ==
    ASSUME IInv, MouseUp
    PROVE  IInv'
<1>1. PICK r \in Radii : Settle(drag.target, [at |-> drag.at, radius |-> r])
  BY DEF MouseUp
<1> DEFINE e   == drag.target
           c   == [at |-> drag.at, radius |-> r]
           new == [circle EXCEPT ![e] = c]
<1>2. /\ drag # None /\ drag' = None /\ previews' = previews - 1
      /\ UNCHANGED <<space, confirm, search, polling, chord>>
      /\ PushHistory /\ SetCircles(new)
  BY <1>1 DEF MouseUp, Settle
<1>3. e \in Ends /\ c \in Circle /\ c # None
  <2>1. drag \in Drag
    BY <1>2, Parts
  <2> QED BY <2>1, NoneIsNull DEF Drag, Circle
<1> HIDE DEF e, c
<1>4. /\ new \in Circles /\ new[e] = c
      /\ \A f \in Ends \ {e} : new[f] = circle[f]
  BY <1>3, Parts DEF Circles
<1> HIDE DEF new
<1>5. /\ circle' = new /\ layer' \in [Ends -> Layer] /\ LayerInv'
      /\ \A f \in Ends : circle[f] = None /\ new[f] # None => layer'[f].captured = new[f]
      /\ \A f \in Ends : circle[f] # None /\ new[f] # None => layer'[f].captured = layer[f].captured
  BY <1>2, <1>4, Parts, SetEffect
<1>6. ASSUME "key" \notin chord PROVE Edits' /\ Handlers'
  <2>1. Edits /\ Handlers /\ circle[e] = None
    BY <1>2, <1>6, Parts DEF e
  <2>2. Comings(circle, circle') = {e}
    BY <1>3, <1>4, <1>5, <2>1 DEF Comings
  <2>3. OneDraw(circle, circle')
    BY <1>3, <1>4, <1>5, <2>2 DEF OneDraw
  <2>4. Handlers'
    BY <1>3, <1>4, <1>5, <2>1 DEF Handlers
  <2> QED BY <1>2, <2>1, <2>3, <2>4, Parts, EditsGrow
<1>7. PreviewInv' /\ previews' \in 0 .. MaxPreviews
  BY <1>2, Parts DEF PreviewInv, NoStrayPreview, TypeOK, MaxPreviews
<1> QED BY <1>2, <1>4, <1>5, <1>6, <1>7, Parts, PushEffect, EditorStep DEF TypeOK

\* CancelDraw counts a preview out exactly if there is one to a drag.
LEMMA CancelEffect ==
    ASSUME IInv, CancelDraw
    PROVE  /\ drag' = None /\ previews' \in 0 .. MaxPreviews
           /\ "button" \notin chord => previews' = 0
<1>1. previews \in 0 .. MaxPreviews /\ MaxPreviews \in Nat
  BY DEF IInv, TypeOK, MaxPreviews
<1>2. /\ drag' = None
      /\ previews' = IF drag = None THEN previews ELSE previews - 1
      /\ drag # None => previews > 0
      /\ "button" \notin chord => previews = IF drag = None THEN 0 ELSE 1
  BY Parts DEF CancelDraw, PreviewInv, NoStrayPreview
<1> QED BY <1>1, <1>2

LEMMA MouseOutInv ==
    ASSUME IInv, MouseOut
    PROVE  IInv'
<1>1. /\ CancelDraw
      /\ UNCHANGED <<circle, history, layer, space, confirm, search, polling, chord>>
  BY DEF MouseOut
<1>2. PreviewInv'
  BY <1>1, CancelEffect DEF PreviewInv, NoStrayPreview
<1>3. "key" \notin chord' => Edits' /\ Handlers'
  BY <1>1, Parts, MapStep
<1> QED BY <1>1, <1>2, <1>3, Parts, CancelEffect, MapStep, EditorStep DEF IInv, TypeOK

\* A moved circle keeps the size the handler captured.
LEMMA MoveMarkerInv ==
    ASSUME IInv, NEW e \in Ends, MoveMarker(e)
    PROVE  IInv' /\ ("key" \notin chord => circle'[e].radius = circle[e].radius)
<1>1. PICK p \in Places :
        SetCircles([circle EXCEPT ![e] = [layer[e].captured EXCEPT !.at = p]])
  BY DEF MoveMarker
<1> DEFINE c   == [layer[e].captured EXCEPT !.at = p]
           new == [circle EXCEPT ![e] = c]
<1>2. /\ circle[e] # None /\ drag = None
      /\ UNCHANGED <<history, drag, previews, space, confirm, search, polling, chord>>
  BY DEF MoveMarker
<1>3. c \in Circle /\ c # None /\ c.radius = layer[e].captured.radius
  <2>1. layer[e].captured \in Circle
    BY <1>2, Parts DEF LayerInv, Layer
  <2> QED BY <2>1, NoneIsNull DEF Circle
<1>4. SetCircles(new)
  BY <1>1
<1> HIDE DEF c
<1>5. /\ new \in Circles /\ new[e] = c
      /\ \A f \in Ends \ {e} : new[f] = circle[f]
  BY <1>3, Parts DEF Circles
<1> HIDE DEF new
<1>6. /\ circle' = new /\ layer' \in [Ends -> Layer] /\ LayerInv'
      /\ \A f \in Ends : circle[f] # None /\ new[f] # None => layer'[f].captured = layer[f].captured
  BY <1>4, <1>5, Parts, SetEffect
<1>7. ASSUME "key" \notin chord
      PROVE  Edits' /\ Handlers' /\ circle'[e].radius = circle[e].radius
  <2>1. Edits /\ Handlers
    BY <1>7, Parts
  <2>2. circle'[e].radius = circle[e].radius
    BY <1>2, <1>3, <1>5, <1>6, <2>1 DEF Handlers
  <2>3. \A f \in Ends : /\ (circle'[f] = None) = (circle[f] = None)
                        /\ circle[f] # None => circle'[f].radius = circle[f].radius
    BY <1>2, <1>3, <1>5, <1>6, <2>2
  <2>4. Edits'
    BY <1>2, <2>1, <2>3, EditsStay
  <2>5. Handlers'
    BY <1>6, <2>1, <2>3 DEF Handlers
  <2> QED BY <2>2, <2>4, <2>5
<1>8. PreviewInv'
  BY <1>2, Parts DEF PreviewInv, NoStrayPreview
<1>9. IInv'
  BY <1>2, <1>5, <1>6, <1>7, <1>8, Parts, EditorStep DEF IInv, TypeOK
<1> QED BY <1>7, <1>9

\* The events that touch no circle and no drag.
LEMMA AsideInv ==
    ASSUME IInv, Space \/ RequestReset \/ CancelReset
    PROVE  IInv'
<1>1. /\ UNCHANGED <<circle, history, layer, drag, previews, search, polling>>
      /\ space' \in BOOLEAN /\ confirm' \in BOOLEAN
      /\ chord' = chord \/ Key
  BY DEF Space, RequestReset, CancelReset, IInv, TypeOK
<1>2. /\ chord' \in SUBSET {"key", "button"}
      /\ "key" \notin chord' => "key" \notin chord
      /\ "button" \notin chord' => "button" \notin chord
  BY <1>1, Parts DEF Key
<1>3. PreviewInv'
  BY <1>1, <1>2, Parts DEF PreviewInv, NoStrayPreview
<1>4. "key" \notin chord' => Edits' /\ Handlers' /\ (drag' # None => circle'[drag'.target] = None)
  BY <1>1, <1>2, Parts, MapStep
<1> QED BY <1>1, <1>2, <1>3, <1>4, MapStep, EditorStep DEF IInv, TypeOK

\* What a key during a drag adds.
LEMMA KeyEffect ==
    ASSUME IInv, Key
    PROVE  /\ chord' \in SUBSET {"key", "button"}
           /\ "key" \notin chord' => "key" \notin chord /\ drag = None
           /\ "button" \notin chord' => "button" \notin chord
BY Parts DEF Key

LEMMA EscapeInv ==
    ASSUME IInv, Escape
    PROVE  IInv'
<1>1. Key /\ UNCHANGED <<space, search, polling>>
  BY DEF Escape
<1>2. CASE confirm \/ circle = NoCircles
  <2>1. confirm' = FALSE /\ CancelDraw /\ UNCHANGED <<circle, history, layer>>
    BY <1>2 DEF Escape
  <2>2. PreviewInv'
    BY <1>1, <2>1, CancelEffect, KeyEffect DEF PreviewInv, NoStrayPreview
  <2>3. "key" \notin chord' => Edits' /\ Handlers'
    BY <1>1, <2>1, Parts, MapStep, KeyEffect
  <2> QED BY <1>1, <2>1, <2>2, <2>3, CancelEffect, KeyEffect, MapStep, EditorStep DEF IInv, TypeOK
<1>3. CASE ~(confirm \/ circle = NoCircles)
  <2>1. RemoveLast /\ (CancelDraw \/ UNCHANGED <<drag, previews>>) /\ UNCHANGED confirm
    BY <1>3 DEF Escape
  <2> DEFINE e   == IF circle["dest"] # None THEN "dest" ELSE "origin"
             new == [circle EXCEPT ![e] = None]
  <2>2. PushHistory /\ SetCircles(new)
    BY <2>1 DEF RemoveLast
  <2>3. e \in Ends /\ circle[e] # None
    <3>1. circle = NoCircles \/ circle["origin"] # None \/ circle["dest"] # None
      BY Parts DEF NoCircles, Circles, Ends
    <3> QED BY <1>3, <3>1 DEF Ends
  <2> HIDE DEF e
  <2>4. /\ new \in Circles /\ new[e] = None
        /\ \A f \in Ends \ {e} : new[f] = circle[f]
    BY <2>3, Parts DEF Circles
  <2> HIDE DEF new
  <2>5. /\ circle' = new /\ layer' \in [Ends -> Layer] /\ LayerInv'
        /\ \A f \in Ends : circle[f] # None /\ new[f] # None => layer'[f].captured = layer[f].captured
    BY <2>2, <2>4, Parts, SetEffect
  <2>6. ASSUME "key" \notin chord' PROVE Edits' /\ Handlers' /\ drag' = None
    <3>1. Edits /\ Handlers /\ drag = None
      BY <1>1, <2>6, Parts, KeyEffect
    <3>2. Comings(circle, circle') = {e}
      BY <2>3, <2>4, <2>5 DEF Comings
    <3>3. OneDraw(circle, circle')
      BY <2>3, <2>4, <2>5, <3>2 DEF OneDraw
    <3>4. Handlers'
      BY <2>3, <2>4, <2>5, <3>1 DEF Handlers
    <3> QED BY <2>1, <2>2, <3>1, <3>3, <3>4, Parts, EditsGrow, CancelEffect
  <2>7. PreviewInv' /\ drag' \in Drag \cup {None} /\ previews' \in 0 .. MaxPreviews
    <3>1. CASE CancelDraw
      BY <1>1, <3>1, CancelEffect, KeyEffect DEF PreviewInv, NoStrayPreview
    <3>2. CASE UNCHANGED <<drag, previews>>
      BY <1>1, <3>2, Parts, KeyEffect DEF PreviewInv, NoStrayPreview, TypeOK
    <3> QED BY <2>1, <3>1, <3>2
  <2> QED BY <1>1, <2>1, <2>2, <2>4, <2>5, <2>6, <2>7, Parts, PushEffect, KeyEffect, EditorStep DEF TypeOK
<1> QED BY <1>2, <1>3

LEMMA UndoInv ==
    ASSUME IInv, Undo
    PROVE  IInv'
<1>1. /\ Key /\ history # <<>> /\ history' = Front(history)
      /\ SetCircles(Last(history)) /\ circle' = Last(history)
      /\ UNCHANGED <<drag, previews, space, confirm, search, polling>>
  BY DEF Undo, SetCircles
<1>2. /\ history' \in Seq(Circles) /\ Len(history') <= MaxHistory /\ circle' \in Circles
      /\ Edits => Edits' /\ OneDraw(circle', circle)
  BY <1>1, Parts, UndoEffect
<1>3. SetCircles(circle')
  BY <1>1
<1>4. /\ layer' \in [Ends -> Layer] /\ LayerInv'
      /\ \A f \in Ends : circle[f] = None /\ circle'[f] # None => layer'[f].captured = circle'[f]
      /\ \A f \in Ends : circle[f] # None /\ circle'[f] # None => layer'[f].captured = layer[f].captured
  <2> DEFINE new == Last(history)
  <2>1. new = circle' /\ new \in Circles /\ SetCircles(new)
    BY <1>1, <1>2
  <2> HIDE DEF new
  <2>2. /\ layer' \in [Ends -> Layer] /\ LayerInv'
        /\ \A f \in Ends : circle[f] = None /\ new[f] # None => layer'[f].captured = new[f]
        /\ \A f \in Ends : circle[f] # None /\ new[f] # None => layer'[f].captured = layer[f].captured
    BY <2>1, Parts, SetEffect
  <2> QED BY <2>1, <2>2
<1>5. ASSUME "key" \notin chord' PROVE Edits' /\ Handlers' /\ drag' = None
  <2>1. Edits /\ Handlers /\ drag = None
    BY <1>1, <1>5, Parts, KeyEffect
  <2>2. Edits' /\ OneDraw(circle', circle)
    BY <1>2, <2>1
  <2>3. PICK e \in Ends : /\ Comings(circle', circle) = {e}
                          /\ \A f \in Ends \ {e} : circle'[f] # None
                               => circle[f].radius = circle'[f].radius
    BY <2>2 DEF OneDraw
  <2>4. ASSUME NEW f \in Ends, circle'[f] # None, circle[f] # None
        PROVE  layer'[f].captured.radius = circle'[f].radius
    <3>1. f # e
      BY <2>3, <2>4 DEF Comings
    <3> QED BY <1>4, <2>1, <2>3, <2>4, <3>1 DEF Handlers
  <2>5. Handlers'
    BY <1>4, <2>4 DEF Handlers
  <2> QED BY <1>1, <2>1, <2>2, <2>5
<1>6. PreviewInv'
  BY <1>1, Parts, KeyEffect DEF PreviewInv, NoStrayPreview
<1> QED BY <1>1, <1>2, <1>4, <1>5, <1>6, Parts, KeyEffect, EditorStep DEF IInv, TypeOK

Searches == [date : BOOLEAN, searching : BOOLEAN, panel : BOOLEAN,
             results : 0 .. MaxSearches, error : 0 .. MaxSearches, latest : 0 .. MaxSearches]

\* The ways the form and the panel change.
LEMMA Forms ==
    ASSUME TypeOK
    PROVE  /\ search \in Searches
           /\ \A d \in BOOLEAN : [search EXCEPT !.date = d] \in Searches
           /\ [search EXCEPT !.date = FALSE, !.panel = FALSE, !.results = 0, !.error = 0] \in Searches
           /\ [search EXCEPT !.panel = FALSE, !.results = 0, !.error = 0] \in Searches
           /\ \A n \in 1 .. MaxSearches :
                [search EXCEPT !.searching = TRUE, !.panel = TRUE, !.results = 0,
                               !.error = 0, !.latest = n] \in Searches
           /\ \A n \in 0 .. MaxSearches :
                /\ [search EXCEPT !.results = n, !.searching = FALSE] \in Searches
                /\ [search EXCEPT !.error = n, !.searching = FALSE] \in Searches
<1>1. search \in Searches /\ 0 \in 0 .. MaxSearches
  BY PageConstantsOK DEF TypeOK, Searches
<1>2. ASSUME NEW d \in BOOLEAN PROVE [search EXCEPT !.date = d] \in Searches
  BY <1>1 DEF Searches
<1>3. /\ [search EXCEPT !.date = FALSE, !.panel = FALSE, !.results = 0, !.error = 0] \in Searches
      /\ [search EXCEPT !.panel = FALSE, !.results = 0, !.error = 0] \in Searches
  BY <1>1 DEF Searches
<1>4. ASSUME NEW n \in 1 .. MaxSearches
      PROVE  [search EXCEPT !.searching = TRUE, !.panel = TRUE, !.results = 0,
                            !.error = 0, !.latest = n] \in Searches
  <2>1. n \in 0 .. MaxSearches
    BY PageConstantsOK
  <2> QED BY <1>1, <2>1 DEF Searches
<1>5. ASSUME NEW n \in 0 .. MaxSearches
      PROVE  /\ [search EXCEPT !.results = n, !.searching = FALSE] \in Searches
             /\ [search EXCEPT !.error = n, !.searching = FALSE] \in Searches
  BY <1>1 DEF Searches
<1> QED BY <1>1, <1>2, <1>3, <1>4, <1>5

\* Reset forgets the circles with their edits, and the results, not the search
\* that is under way.
LEMMA ConfirmResetInv ==
    ASSUME IInv, ConfirmReset
    PROVE  IInv'
<1>1. confirm' = FALSE /\ UNCHANGED <<drag, previews, space, polling, chord>>
  BY DEF ConfirmReset
<1>2. PreviewInv'
  BY <1>1, Parts DEF PreviewInv, NoStrayPreview
<1>3. CASE circle = NoCircles
  <2>1. UNCHANGED <<circle, history, layer, search>>
    BY <1>3 DEF ConfirmReset
  <2>2. "key" \notin chord' => Edits' /\ Handlers' /\ (drag' # None => circle'[drag'.target] = None)
    BY <1>1, <2>1, Parts, MapStep
  <2> QED BY <1>1, <1>2, <2>1, <2>2, MapStep, EditorStep DEF IInv, TypeOK
<1>4. CASE circle # NoCircles
  <2>1. history' = <<>> /\ SetCircles(NoCircles) /\ search' = ClearedSearch
    BY <1>4 DEF ConfirmReset
  <2>2. NoCircles \in Circles /\ \A e \in Ends : NoCircles[e] = None
    BY DEF NoCircles, Circles
  <2> DEFINE new == NoCircles
  <2> HIDE DEF new
  <2>3. circle' = new /\ layer' \in [Ends -> Layer] /\ LayerInv' /\ new \in Circles
    BY <2>1, <2>2, Parts, SetEffect DEF new
  <2>4. \A e \in Ends : circle'[e] = None
    BY <2>2, <2>3 DEF new
  <2>5. history' \in Seq(Circles) /\ Len(history') = 0
    BY <2>1, EmptySeq
  <2>6. EditInv'
    <3>1. drag' # None => circle'[drag'.target] = None
      BY <1>1, <2>4, Parts DEF Drag
    <3>2. \A i \in 1 .. Len(history') : FALSE
      BY <2>5
    <3> QED BY <2>4, <3>1, <3>2 DEF EditInv
  <2>7. SearchInv'
    BY <1>1, <2>1 DEF IInv, SearchInv, ClearedSearch, TypeOK
  <2>8. TypeOK'
    <3>1. search' \in Searches
      BY <2>1, Forms DEF IInv, ClearedSearch
    <3>2. Len(history') <= MaxHistory
      BY <2>5, PageConstantsOK
    <3>3. polling' \subseteq 1 .. MaxSearches
      BY <1>1 DEF IInv, TypeOK
    <3>4. confirm' \in BOOLEAN /\ drag' \in Drag \cup {None} /\ previews' \in 0 .. MaxPreviews
          /\ space' \in BOOLEAN /\ chord' \subseteq {"key", "button"}
      BY <1>1 DEF IInv, TypeOK
    <3> QED BY <2>3, <2>5, <3>1, <3>2, <3>3, <3>4 DEF TypeOK, Searches
  <2> QED BY <1>2, <2>3, <2>6, <2>7, <2>8 DEF IInv
<1> QED BY <1>3, <1>4

-----------------------------------------------------------------------------
(* The search *)

\* The steps that leave the editor alone.
LEMMA SearchStep ==
    ASSUME IInv, UNCHANGED editor, SearchInv',
           search' \in Searches,
           polling' \subseteq 1 .. MaxSearches
    PROVE  IInv'
<1>1. UNCHANGED <<circle, history, layer, drag, previews, space, confirm, chord>>
  BY DEF editor
<1>2. TypeOK'
  BY <1>1 DEF IInv, TypeOK, Searches
<1>3. PreviewInv' /\ LayerInv'
  BY <1>1 DEF IInv, PreviewInv, NoStrayPreview, LayerInv, MapShowsCircles
<1>4. EditInv'
  BY <1>1 DEF IInv, EditInv, OneDraw, Comings, After
<1> QED BY <1>2, <1>3, <1>4 DEF IInv

LEMMA SearchActionsInv ==
    ASSUME IInv, \/ PickDate \/ FindFlights \/ ClosePanel
                 \/ \E n \in polling : ShowResults(n) \/ SearchFails(n)
    PROVE  IInv'
<1>0. /\ TypeOK /\ MaxSearches \in Nat
      /\ search \in Searches
      /\ polling \subseteq 1 .. MaxSearches
      /\ polling = IF search.searching THEN {search.latest} ELSE {}
      /\ {search.results, search.error} \subseteq {0, search.latest}
  BY PageConstantsOK DEF IInv, TypeOK, SearchInv, Searches
<1>1. CASE PickDate
  <2>1. PICK d \in BOOLEAN : search' = [search EXCEPT !.date = d]
    BY <1>1 DEF PickDate
  <2>2. search' \in Searches /\ UNCHANGED <<editor, polling>>
    BY <1>0, <1>1, <2>1, Forms DEF PickDate
  <2>3. /\ search'.searching = search.searching /\ search'.latest = search.latest
        /\ search'.results = search.results /\ search'.error = search.error
    BY <1>0, <2>1 DEF Searches
  <2> QED BY <1>0, <2>2, <2>3, SearchStep DEF SearchInv
<1>2. CASE FindFlights
  <2>1. /\ ~search.searching /\ search.latest < MaxSearches /\ UNCHANGED editor
        /\ search' = [search EXCEPT !.searching = TRUE, !.panel = TRUE, !.results = 0,
                                    !.error = 0, !.latest = search.latest + 1]
        /\ polling' = polling \cup {search.latest + 1}
    BY <1>2 DEF FindFlights, CanSearch
  <2>2. search.latest + 1 \in 1 .. MaxSearches
    BY <1>0, <2>1 DEF Searches
  <2>3. search' \in Searches
    BY <1>0, <2>1, <2>2, Forms
  <2>4. /\ search'.searching = TRUE /\ search'.latest = search.latest + 1
        /\ search'.results = 0 /\ search'.error = 0
    BY <1>0, <2>1 DEF Searches
  <2> QED BY <1>0, <2>1, <2>2, <2>3, <2>4, SearchStep DEF SearchInv
<1>3. CASE ClosePanel
  <2>1. /\ search' = [search EXCEPT !.panel = FALSE, !.results = 0, !.error = 0]
        /\ UNCHANGED <<editor, polling>>
    BY <1>3 DEF ClosePanel
  <2>2. search' \in Searches
    BY <1>0, <2>1, Forms
  <2>3. /\ search'.searching = search.searching /\ search'.latest = search.latest
        /\ search'.results = 0 /\ search'.error = 0
    BY <1>0, <2>1 DEF Searches
  <2> QED BY <1>0, <2>1, <2>2, <2>3, SearchStep DEF SearchInv
<1>4. ASSUME NEW n \in polling, ShowResults(n) \/ SearchFails(n) PROVE IInv'
  <2>1. n = search.latest /\ polling = {n} /\ n \in 0 .. MaxSearches
    BY <1>0, <1>4
  <2>2. UNCHANGED editor /\ polling' = {}
    BY <1>4, <2>1 DEF ShowResults, SearchFails
  <2>3. \/ search' = [search EXCEPT !.results = n, !.searching = FALSE]
        \/ search' = [search EXCEPT !.error = n, !.searching = FALSE]
    BY <1>4 DEF ShowResults, SearchFails
  <2>4. search' \in Searches
    BY <1>0, <2>1, <2>3, Forms
  <2>5. /\ search'.searching = FALSE /\ search'.latest = n
        /\ {search'.results, search'.error} \subseteq {0, n}
    BY <1>0, <2>1, <2>3 DEF Searches
  <2> QED BY <1>0, <2>1, <2>2, <2>4, <2>5, SearchStep DEF SearchInv
<1> QED BY <1>1, <1>2, <1>3, <1>4

-----------------------------------------------------------------------------
(* The whole page *)

LEMMA InitInv == Init => IInv
<1> SUFFICES ASSUME Init PROVE IInv
  OBVIOUS
<1>1. \A e \in Ends : circle[e] = None /\ layer[e] = NoLayer
  BY DEF Init, NoCircles
<1>2. history \in Seq(Circles) /\ Len(history) = 0
  BY EmptySeq DEF Init
<1>3. TypeOK
  <2>1. circle \in Circles /\ layer \in [Ends -> Layer]
    BY DEF Init, NoCircles, Circles, NoLayer, Layer
  <2>2. search \in Searches
    BY PageConstantsOK DEF Init, NoSearch, Searches
  <2>3. Len(history) <= MaxHistory /\ previews \in 0 .. MaxPreviews
    BY <1>2, PageConstantsOK DEF Init, MaxPreviews
  <2> QED BY <1>2, <2>1, <2>2, <2>3 DEF Init, TypeOK, Searches
<1>4. PreviewInv /\ LayerInv
  BY <1>1 DEF Init, PreviewInv, NoStrayPreview, LayerInv, MapShowsCircles, NoLayer
<1>5. EditInv
  <2>1. \A i \in 1 .. Len(history) : FALSE
    BY <1>2
  <2> QED BY <1>1, <2>1 DEF Init, EditInv
<1>6. SearchInv
  BY DEF Init, SearchInv, NoSearch
<1> QED BY <1>3, <1>4, <1>5, <1>6 DEF IInv

LEMMA StepInv == IInv /\ [Next]_vars => IInv'
<1> SUFFICES ASSUME IInv, [Next]_vars PROVE IInv'
  OBVIOUS
<1>1. CASE MouseDown \/ MouseUp \/ MouseOut
  BY <1>1, MouseDownInv, MouseUpInv, MouseOutInv
<1>2. ASSUME NEW e \in Ends, MoveMarker(e) PROVE IInv'
  BY <1>2, MoveMarkerInv
<1>3. CASE Space \/ RequestReset \/ CancelReset
  BY <1>3, AsideInv
<1>4. CASE Escape \/ Undo \/ ConfirmReset
  BY <1>4, EscapeInv, UndoInv, ConfirmResetInv
<1>5. CASE \/ PickDate \/ FindFlights \/ ClosePanel
           \/ \E n \in polling : ShowResults(n) \/ SearchFails(n)
  BY <1>5, SearchActionsInv
<1>6. CASE UNCHANGED vars
  <2>1. UNCHANGED editor /\ UNCHANGED <<search, polling>>
    BY <1>6 DEF vars
  <2>2. SearchInv'
    BY <2>1 DEF IInv, SearchInv
  <2>3. search' \in Searches /\ polling' \subseteq 1 .. MaxSearches
    BY <2>1, Forms DEF IInv, TypeOK
  <2> QED BY <2>1, <2>2, <2>3, SearchStep
<1> QED BY <1>1, <1>2, <1>3, <1>4, <1>5, <1>6 DEF Next

LEMMA Invariant == Spec => []IInv
BY InitInv, StepInv, PTL DEF Spec

-----------------------------------------------------------------------------
(* The results *)

\* Every variable has its type; in particular the previews are never counted below
\* zero and undo never reads an empty history.
THEOREM TypeCorrect == Spec => []TypeOK
<1>1. IInv => TypeOK
  BY DEF IInv
<1> QED BY <1>1, Invariant, PTL

\* The layers the effects keep in Leaflet are the circles of React's state, after
\* any sequence of events.
THEOREM MapIsCurrent == Spec => []MapShowsCircles
<1>1. IInv => MapShowsCircles
  BY DEF IInv, LayerInv
<1> QED BY <1>1, Invariant, PTL

\* With one mouse button no preview is left on the map and none is removed twice.
THEOREM PreviewsGo == Spec => []NoStrayPreview
<1>1. IInv => NoStrayPreview
  BY DEF IInv, PreviewInv
<1> QED BY <1>1, Invariant, PTL

\* The open panel shows the last search or nothing, because only one search polls
\* at a time and a reset does not end it.
THEOREM PanelIsCurrent == Spec => []PanelShowsLatest
<1>1. IInv => PanelShowsLatest
  BY DEF IInv, SearchInv, PanelShowsLatest
<1> QED BY <1>1, Invariant, PTL

\* A history of any length is one of single drawings and removals, if no key was
\* pressed during a drag: undo takes back the last of them, and the moves since.
THEOREM UndoIsOneDraw == Spec => []UndoTakesBackOneDraw
<1>1. IInv => UndoTakesBackOneDraw
  <2> DEFINE states == Append(history, circle)
  <2> SUFFICES ASSUME IInv, "key" \notin chord, NEW i \in 1 .. Len(history)
               PROVE  OneDraw(states[i], states[i + 1])
    BY DEF UndoTakesBackOneDraw
  <2>1. OneDraw(history[i], After(i)) /\ history \in Seq(Circles) /\ circle \in Circles
        /\ Len(history) \in Nat
    BY Parts, LenProperties DEF Edits
  <2>2. states[i] = history[i]
    BY <2>1, AppendProperties
  <2>3. states[i + 1] = After(i)
    <3>1. CASE i = Len(history)
      BY <2>1, <3>1, AppendProperties DEF After
    <3>2. CASE i # Len(history)
      <4>1. i + 1 \in 1 .. Len(history)
        BY <2>1, <3>2
      <4>2. states[i + 1] = history[i + 1]
        BY <2>1, <4>1, AppendProperties
      <4> QED BY <3>2, <4>2 DEF After
    <3> QED BY <3>1, <3>2
  <2> HIDE DEF states
  <2> QED BY <2>1, <2>2, <2>3
<1> QED BY <1>1, Invariant, PTL

\* Nor does moving a marker change a size, although its handler is not renewed.
THEOREM MovingKeepsRadius == Spec => MoveKeepsRadius
<1> DEFINE Keeps ==
      \A e \in Ends :
        "key" \notin chord /\ Len(history') = Len(history)
            /\ circle[e] # None /\ circle'[e] # None
            => circle'[e].radius = circle[e].radius
<1>1. IInv /\ [Next]_vars => [Keeps]_vars
  <2> SUFFICES ASSUME IInv, Next PROVE Keeps
    OBVIOUS
  <2>1. ASSUME UNCHANGED circle PROVE Keeps
    BY <2>1
  <2>2. ASSUME PushHistory PROVE Keeps
    <3>1. Len(history') = Len(history) + 1 /\ Len(history) \in Nat
      BY <2>2, Parts, PushEffect
    <3> QED BY <3>1
  <2>3. CASE Undo
    <3>1. history # <<>> /\ history' = Front(history) /\ circle' = Last(history)
      BY <2>3 DEF Undo, SetCircles
    <3>2. Len(history') = Len(history) - 1 /\ Len(history) \in Nat \ {0}
      BY <3>1, Parts, UndoEffect
    <3> QED BY <3>2
  <2>4. CASE ConfirmReset
    <3>1. UNCHANGED circle \/ circle' = NoCircles
      BY <2>4 DEF ConfirmReset, SetCircles
    <3> QED BY <2>1, <3>1 DEF NoCircles
  <2>5. ASSUME NEW e \in Ends, MoveMarker(e) PROVE Keeps
    <3>1. "key" \notin chord => circle'[e].radius = circle[e].radius
      BY <2>5, MoveMarkerInv
    <3>2. \A f \in Ends \ {e} : circle'[f] = circle[f]
      BY <2>5, Parts DEF MoveMarker, SetCircles, Circles
    <3> QED BY <3>1, <3>2
  <2>6. CASE MouseUp
    BY <2>2, <2>6 DEF MouseUp, Settle
  <2>7. CASE Escape
    BY <2>1, <2>2, <2>7 DEF Escape, RemoveLast
  <2>8. CASE MouseDown \/ MouseOut \/ Space \/ RequestReset \/ CancelReset
    BY <2>1, <2>8 DEF MouseDown, MouseOut, Space, RequestReset, CancelReset
  <2>9. CASE \/ PickDate \/ FindFlights \/ ClosePanel
             \/ \E n \in polling : ShowResults(n) \/ SearchFails(n)
    BY <2>1, <2>9 DEF PickDate, FindFlights, ClosePanel, ShowResults, SearchFails, editor
  <2> QED BY <2>3, <2>4, <2>5, <2>6, <2>7, <2>8, <2>9 DEF Next
<1> QED BY <1>1, Invariant, PTL DEF Spec, MoveKeepsRadius
=============================================================================
