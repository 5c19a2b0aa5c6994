----------------------------- MODULE WindowFrames -----------------------------
(***************************************************************************)
(* The floating windows of the desktop (WorkspaceDesktop.tsx) and the pan  *)
(* of the canvas they lie on, along one axis: the other axis is the same   *)
(* with other constants.  A drag is redrawn on every animation frame, a    *)
(* resize on every move of the pointer, and a pointer near the edge pans   *)
(* the canvas a step per frame; a render that changes the extent of the    *)
(* canvas clamps the pan, which moves the window that is being dragged.    *)
(***************************************************************************)
EXTENDS Terminal, FiniteSets, FiniteSetsExt

CONSTANTS
  Ids,       \* windows there may be
  Held,      \* those among them that are dragged, resized and collapsed
  MinPos,    \* 8, and 48 below the header
  MinSize, MaxSize,
  Margin,    \* 96: room kept beyond the last window
  Offset,    \* 34: how far a clone lies from its source
  Views,     \* sizes of the viewport
  Edge,      \* WORKSPACE_EDGE_PAN_ZONE
  MaxCanvas  \* bound: positions

ASSUME FramesAssumption ==
  /\ MinPos \in Nat /\ MinSize \in Nat \ {0}
  /\ MaxSize \in Nat /\ MaxSize >= MinSize /\ MaxCanvas \in Nat
  /\ Margin \in Nat /\ Offset \in Nat /\ Edge \in Nat
  /\ Views \subseteq 1..MaxCanvas /\ Held \subseteq Ids

VARIABLES
  frames,   \* the windows: [x, w, z, collapsed]
  view,     \* viewportSize
  pan,      \* workspacePan
  gesture,  \* the drag or resize under way: what it started from, or None
  pointer,  \* where the pointer is on the screen during a gesture
  edgeAt    \* edgePointerRef; while it is set an edge pan is requested

frameVars == <<frames, view, pan, gesture, pointer, edgeAt>>

TopZ(fs) == Max({1} \cup {fs[i].z : i \in DOMAIN fs})

\* workspaceBounds: a collapsed window keeps its extent along this axis (34 along
\* the other).
Bounds(fs, v) == Max({v} \cup {fs[i].x + fs[i].w + Margin : i \in DOMAIN fs})

\* Mutant: the pan goes a step too far.
PanBeyond(p, fs, v) == ClampLow(p, 0, Greater(0, Bounds(fs, v) - v) + 1)

\* clampWorkspacePan
Panned(p, fs, v) == ClampLow(p, 0, Greater(0, Bounds(fs, v) - v))

\* Levels are only compared: they are kept small, as ranks.
Ranked(fs) ==
  [i \in DOMAIN fs |-> [fs[i] EXCEPT !.z = 1 + Cardinality({j \in DOMAIN fs : fs[j].z < fs[i].z})]]

\* A render with other windows or another viewport, and the effect that follows
\* when the extent of the canvas has changed.
Render(fs, v) ==
  /\ frames' = Ranked(fs) /\ view' = v
  /\ pan' = IF Bounds(fs, v) # Bounds(frames, view) \/ v # view
            THEN Panned(pan, fs, v) ELSE pan

\* bringForward
Raised(i) == [frames EXCEPT ![i].z = TopZ(frames) + 1]

DefaultFrames(first, second) ==
  [i \in {first, second} |->
     [x |-> MinPos + (IF i = first THEN 0 ELSE MinSize), w |-> MinSize,
      z |-> IF i = first THEN 1 ELSE 2, collapsed |-> FALSE]]

FramesInit ==
  /\ \E first \in Ids, second \in Ids :
       first # second /\ frames = DefaultFrames(first, second)
  /\ view \in Views /\ pan = 0
  /\ gesture = None /\ pointer = 0 /\ edgeAt = None

\* onActivate: any press on a window.
Activate(i) ==
  /\ gesture = None
  /\ Render(Raised(i), view)
  /\ UNCHANGED <<gesture, pointer, edgeAt>>

\* A press on the title bar, near its left end, or on a handle.
PressAt(i, kind) == frames[i].x - pan + (IF kind = "east" THEN frames[i].w ELSE 0)

Start(i, kind) ==
  /\ gesture = None
  /\ PressAt(i, kind) \in 0..view
  /\ pointer' = PressAt(i, kind)
  /\ gesture' = [id |-> i, kind |-> kind, at |-> PressAt(i, kind),
                 x |-> frames[i].x, w |-> frames[i].w, pan |-> pan]
  /\ Render(Raised(i), view)
  /\ UNCHANGED edgeAt

\* startDrag; its first syncDrag leaves the window where it is.
StartDrag(i) == Start(i, "drag")

\* Mutant: the pan is forgotten.
DraggedBlind == Greater(MinPos, gesture.x + pointer - gesture.at)

\* syncDrag, on every frame until the pointer is up: the window follows the pointer
\* and the pan.
DraggedTo == Greater(MinPos, gesture.x + pointer - gesture.at + (pan - gesture.pan))

DragFrame ==
  /\ gesture # None /\ gesture.kind = "drag"
  /\ DraggedTo <= MaxCanvas
  /\ Render([frames EXCEPT ![gesture.id].x = DraggedTo], view)
  /\ UNCHANGED <<gesture, pointer, edgeAt>>

StartResize(i, side) == ~frames[i].collapsed /\ Start(i, side)

\* move of startResize: the far side grows to a limit; the near side takes the
\* position along, limited by the least size and the edge of the canvas.
Resized(f, moved) ==
  IF gesture.kind = "east" THEN [f EXCEPT !.w = ClampLow(gesture.w + moved, MinSize, MaxSize)]
  ELSE LET by == ClampLow(moved, MinPos - gesture.x, gesture.w - MinSize)
       IN [f EXCEPT !.x = gesture.x + by, !.w = gesture.w - by]

InEdge(p) == p < Edge \/ p > view - Edge

\* handleWindowDragPointerMove: inside, the edge pan stops; near the edge it runs.
EdgeFor(p) == IF InEdge(p) THEN p ELSE None

\* The pointer moves with a gesture under way.  onDragPointerMove comes first; a
\* resize is drawn at once, a drag on the next frame.
MoveGesture(p) ==
  /\ gesture # None /\ p # pointer
  /\ pointer' = p /\ edgeAt' = EdgeFor(p)
  /\ IF gesture.kind = "drag" THEN UNCHANGED <<frames, view, pan>>
     ELSE /\ gesture.x + gesture.w + p <= MaxCanvas
          /\ Render([frames EXCEPT ![gesture.id] = Resized(@, p - gesture.at + (pan - gesture.pan))], view)
  /\ UNCHANGED gesture

\* handleWorkspacePointerMove: no button is down, and the zone is narrower.
Hover(p) ==
  /\ gesture = None
  /\ edgeAt' = IF p \in {0, view} THEN p ELSE None
  /\ UNCHANGED <<frames, view, pan, gesture, pointer>>

\* pointerup, and pointerleave for a hover: onDragPointerEnd stops the edge pan.
PointerUp ==
  /\ gesture # None \/ edgeAt # None
  /\ gesture' = None /\ edgeAt' = None /\ pointer' = 0
  /\ UNCHANGED <<frames, view, pan>>

\* stepWorkspaceEdgePan: the far edge goes first, and a pointer in neither zone
\* ends it.
EdgeStep ==
  /\ edgeAt # None
  /\ IF InEdge(edgeAt)
     THEN /\ pan' = Panned(IF edgeAt > view - Edge THEN pan + 1 ELSE pan - 1, frames, view)
          /\ UNCHANGED edgeAt
     ELSE edgeAt' = None /\ UNCHANGED pan
  /\ UNCHANGED <<frames, view, gesture, pointer>>

\* handleWorkspaceWheel
Wheel(d) ==
  /\ pan' = Panned(pan + d, frames, view)
  /\ UNCHANGED <<frames, view, gesture, pointer, edgeAt>>

ToggleCollapse(i) ==
  /\ gesture = None
  /\ Render([frames EXCEPT ![i].collapsed = ~@], view)
  /\ UNCHANGED <<gesture, pointer, edgeAt>>

CloseFrame(i) ==
  /\ gesture = None
  /\ Render([j \in DOMAIN frames \ {i} |-> frames[j]], view)
  /\ UNCHANGED <<gesture, pointer, edgeAt>>

Placed(i, x, w) ==
  Render([j \in DOMAIN frames \cup {i} |->
            IF j = i THEN [x |-> x, w |-> w, z |-> TopZ(frames) + 1, collapsed |-> FALSE]
            ELSE frames[j]], view)

CloneFrame(i) ==
  /\ gesture = None /\ frames[i].x + Offset <= MaxCanvas
  /\ \E new \in Ids \ DOMAIN frames :
       Placed(new, Greater(MinPos, frames[i].x + Offset), frames[i].w)
  /\ UNCHANGED <<gesture, pointer, edgeAt>>

\* addWindow: a new window is placed where the pan shows it.
AddFrame ==
  /\ gesture = None /\ pan + MinPos + 1 <= MaxCanvas
  /\ \E new \in Ids \ DOMAIN frames : Placed(new, pan + MinPos + 1, MinSize)
  /\ UNCHANGED <<gesture, pointer, edgeAt>>

\* The browser's window is resized.
ResizeView(v) ==
  /\ gesture = None /\ v # view
  /\ Render(frames, v)
  /\ UNCHANGED <<gesture, pointer, edgeAt>>

FramesNext ==
  \/ \E i \in DOMAIN frames : Activate(i) \/ CloseFrame(i) \/ CloneFrame(i)
  \/ \E i \in DOMAIN frames \cap Held : \/ StartDrag(i) \/ ToggleCollapse(i)
                                       \/ StartResize(i, "east") \/ StartResize(i, "west")
  \/ \E p \in 0..view : MoveGesture(p) \/ Hover(p)
  \/ \E d \in {-2, 2} : Wheel(d)
  \/ \E v \in Views : ResizeView(v)
  \/ DragFrame \/ EdgeStep \/ PointerUp \/ AddFrame

\* The browser calls the frame callbacks for as long as they are requested.
FramesSpec ==
  FramesInit /\ [][FramesNext]_frameVars /\ WF_frameVars(DragFrame) /\ WF_frameVars(EdgeStep)

(***************************************************************************)
(* Properties.                                                             *)
(***************************************************************************)

\* Types, and every window at least as large as its handles and clear of the edge.
FramesTypeOK ==
  /\ \A i \in DOMAIN frames : frames[i].x >= MinPos /\ frames[i].w >= MinSize
  /\ view \in Views /\ pan \in Nat

\* The canvas is never panned past its extent: whatever window was closed, moved,
\* narrowed or made visible by a larger viewport, the desktop is not left showing
\* what lies outside it.
PanInsideCanvas == pan <= Greater(0, Bounds(frames, view) - view)

\* No two windows are on one level, so that one window is drawn as active and a
\* press always brings a window in front of all others.
OneWindowPerLevel == \A i, j \in DOMAIN frames : frames[i].z = frames[j].z => i = j

\* A resize moves the side that is held and leaves the other where it was when the
\* gesture began, also when its limits stop it.
FarSideStays ==
  gesture # None =>
    LET f == frames[gesture.id]
    IN /\ gesture.kind = "west" => f.x + f.w = gesture.x + gesture.w
       /\ gesture.kind = "east" => f.x = gesture.x

\* Every window stays in reach: inside the canvas, large enough for its handles, on a
\* level of its own, resized on the side that is held alone, and the pan never beyond
\* the windows, whatever gestures, closings and viewports follow one another.
WindowsStayInReach == FramesTypeOK /\ PanInsideCanvas /\ OneWindowPerLevel /\ FarSideStays

\* A window that is dragged ends under the pointer although its moves shrink the
\* canvas, which pans it and moves the window again: with the pointer at rest the
\* frames come to an end of that.  (Past MaxCanvas the model draws no frame.)
DragSettles ==
  LET Beside == gesture.x - gesture.pan - gesture.at  \* from the pointer to the window
  IN []<>(gesture # None /\ gesture.kind = "drag" =>
            \/ frames[gesture.id].x - pan - pointer = Beside
            \/ pan + pointer + Beside < MinPos /\ frames[gesture.id].x = MinPos
            \/ pan + pointer + Beside > MaxCanvas)
=============================================================================
