------------------------------ MODULE ImageViews ------------------------------
(***************************************************************************)
(* The two views of single images, the Quick Look preview and the web view *)
(* with its highlight, on one main thread and with one status line.  While *)
(* a preview is downloaded there, no mouse movement is delivered and no    *)
(* page runs.                                                              *)
(***************************************************************************)
EXTENDS PreviewCache, HoverHighlight

vars == <<statusLine, cacheVars, hoverVars>>

TypeOK == StatusTypeOK /\ CacheTypeOK /\ IndicatorTypeOK /\ HoverTypeOK

Init ==
    /\ isBusy = FALSE
    /\ statusMessage = ""
    /\ CacheInit
    /\ HoverInit

Next ==
    \/ CacheNext /\ UNCHANGED hoverVars
    \/ mainThreadIsFree /\ HoverNext /\ UNCHANGED cacheVars

Spec == Init /\ [][Next]_vars

(***************************************************************************)
(* The text in the status line is true, in whatever order the views and    *)
(* the threads change it.  The hint is displayed only while an image of    *)
(* the page displayed is highlighted, or one that was when the page        *)
(* changed under the pointer, which has not moved since.  An image is said *)
(* to be downloaded only while a thread is not answered yet, unless it was *)
(* Add to Queue without an image that said so last, and to be loaded only  *)
(* while the panel has not asked for its file or waits for it.  Both are   *)
(* displayed only with the indicator on.                                   *)
(***************************************************************************)
StatusTextIsTrue ==
    /\ statusMessage = "webview_image_hover" =>
           /\ highlightedElement # NoElement
           /\ pageLeft \/ (highlightedElement \in Img /\ PageOf[highlightedElement] = page)
    /\ statusMessage = "downloading_image" => isBusy /\ (threads # {} \/ leaked)
    /\ statusMessage = "loading_image" => isBusy /\ panelWaits
===============================================================================
