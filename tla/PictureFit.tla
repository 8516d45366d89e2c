---------------------------- MODULE PictureFit ----------------------------
(***************************************************************************)
(* How a decoded frame is fitted to the panel: drm_out_fit() and           *)
(* letterbox() in src/src/video/drm_output.c, and prepare_frame() in       *)
(* src/src/app/present.cpp, which decides whether the CPU halves the frame *)
(* first.  Widths and heights are in pixels; C's division truncates.       *)
(***************************************************************************)
EXTENDS Integers

CONSTANTS
    PanelW, PanelH,
    Widths, Heights    \* of the frames the server may send

FitAssumption ==
    /\ PanelW \in Nat \ {0} /\ PanelH \in Nat \ {0}
    /\ Widths \subseteq Nat \ {0} /\ Heights \subseteq Nat \ {0}

(* kPanPct: percent of the slack the menu can ask for. *)
Pans == {-100, -50, 0, 50, 100}

VARIABLES
    frameW, frameH,   \* the frame to show
    fill, pan,        \* drm_out_set_zoom()
    halve,            \* the CPU halves it
    srcW, srcH,       \* the source the plane reads
    crop, dst         \* rectangles: what of it, and where on the panel

vars == <<frameW, frameH, fill, pan, halve, srcW, srcH, crop, dst>>

Even(n) == n - (n % 2)
Quotient(a, b) == IF a < 0 THEN -((-a) \div b) ELSE a \div b
Within(n, lo, hi) == IF n > hi THEN hi ELSE IF n < lo THEN lo ELSE n

Rect(x, y, w, h) == [x |-> x, y |-> y, w |-> w, h |-> h]

(* drm_out_fit(). *)
Fit(w, h) ==
    LET tall == (PanelW * h) \div w
        wide == (PanelH * w) \div h
    IN  IF tall > PanelH THEN [w |-> Even(wide), h |-> Even(PanelH)]
        ELSE [w |-> Even(PanelW), h |-> Even(tall)]

(* Mutant: the pan is not held within the slack. *)
PannedFreely(size, cropped, p) ==
    Even(Even((size - cropped) \div 2) + Quotient((size - cropped) * p, 200))

(* The start of a crop of a longer side, panned across what is left over.   *)
Panned(size, cropped, p) ==
    Even(Within(Even((size - cropped) \div 2) + Quotient((size - cropped) * p, 200),
                0, size - cropped))

(* letterbox(). *)
Crop(w, h, zoom, p) ==
    LET wantW == (h * PanelW) \div PanelH
        wantH == (w * PanelH) \div PanelW
    IN  IF ~zoom THEN Rect(0, 0, w, h)
        ELSE IF wantW <= w THEN Rect(Panned(w, Even(wantW), p), 0, Even(wantW), h)
        ELSE Rect(0, Panned(h, Even(wantH), p), w, Even(wantH))

Destination(w, h, zoom) ==
    LET fitted == Fit(w, h)
    IN  IF zoom THEN Rect(0, 0, PanelW, PanelH)
        ELSE Rect((PanelW - fitted.w) \div 2, (PanelH - fitted.h) \div 2, fitted.w, fitted.h)

(* prepare_frame(): the CPU halves a frame only where half of it is exactly *)
(* what it is fitted into.                                                  *)
Halves(w, h, zoom, cpu) ==
    /\ cpu /\ ~zoom /\ w % 2 = 0 /\ h % 2 = 0
    /\ Fit(w, h) = [w |-> w \div 2, h |-> h \div 2]

Shown(w, h) == srcW' = w /\ srcH' = h /\ crop' = Crop(w, h, fill', pan')
               /\ dst' = Destination(w, h, fill')

Init ==
    /\ frameW = PanelW /\ frameH = PanelH /\ fill = FALSE /\ pan = 0 /\ halve = FALSE
    /\ srcW = PanelW /\ srcH = PanelH
    /\ crop = Crop(PanelW, PanelH, FALSE, 0) /\ dst = Destination(PanelW, PanelH, FALSE)

(* prepare_frame(), of a frame of any size and whatever the menu says.       *)
PrepareFrame ==
    \E cpu \in BOOLEAN :
        /\ frameW' \in Widths /\ frameH' \in Heights
        /\ fill' \in BOOLEAN /\ pan' \in Pans
        /\ halve' = Halves(frameW', frameH', fill', cpu)
        /\ IF halve' THEN Shown(frameW' \div 2, frameH' \div 2) ELSE Shown(frameW', frameH')

Next == PrepareFrame

Spec == Init /\ [][Next]_vars

TypeOK ==
    /\ {frameW, frameH, srcW, srcH} \subseteq Nat /\ fill \in BOOLEAN /\ halve \in BOOLEAN
    /\ pan \in Pans

-----------------------------------------------------------------------------
(* Properties. *)

InsideOf(r, w, h) == r.x >= 0 /\ r.y >= 0 /\ r.x + r.w <= w /\ r.y + r.h <= h

(* Whatever the frame and the pan, the plane reads nothing outside the       *)
(* source and paints nothing outside the panel, in even source coordinates   *)
(* ("Everything stays even", drm_output.c:358).                              *)
PlaneInside ==
    /\ InsideOf(crop, srcW, srcH) /\ InsideOf(dst, PanelW, PanelH)
    /\ crop.x % 2 = 0 /\ crop.y % 2 = 0

(* A frame the CPU halves is left nothing to scale: the plane shows it dot   *)
(* for dot, in the rectangle the frame itself would have been fitted into.   *)
HalvedExactly == halve => dst.w = srcW /\ dst.h = srcH /\ dst = Destination(frameW, frameH, FALSE)
=============================================================================
