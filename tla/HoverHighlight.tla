---------------------------- MODULE HoverHighlight ----------------------------
(***************************************************************************)
(* The highlight of the image under the pointer in the web view: its style *)
(* attribute is replaced and given back.  The page's own scripts set the   *)
(* attribute too, and the page goes away and comes back while an image is  *)
(* highlighted, because nothing tells AppDelegate of either.               *)
(***************************************************************************)
EXTENDS Naturals, StatusDelegate

CONSTANTS
    Img,            \* image elements of the pages
    Page, PageOf,   \* the page each is on
    Style, NoStyle, \* what a page puts into a style attribute, NoStyle for nothing
    NoElement,      \* nil, or something that is no image
    GoneElement     \* an element of a page that was thrown away

ASSUME HoverAssumption ==
    /\ PageOf \in [Img -> Page]
    /\ NoStyle \in Style
    /\ NoElement \notin Img /\ GoneElement \notin Img /\ NoElement # GoneElement

VARIABLES
    page,                           \* the page displayed
    style,                          \* the style attribute of each image
    highlightedElement,
    highlightedElementOriginalStyle,
    pageStyle,                      \* history: the style the page set last
    overridden,                     \* history: images restyled by the page under the highlight
    pageLeft                        \* history: a page came since the pointer moved last

hoverVars == <<page, style, highlightedElement, highlightedElementOriginalStyle,
               pageStyle, overridden, pageLeft>>

\* An attribute: the page's part, and how often the highlight is appended to it.
Attribute == [own : Style, highlights : Nat]

Plain(s) == [own |-> s, highlights |-> 0]

HoverTypeOK ==
    /\ page \in Page
    /\ style \in [Img -> Attribute]
    /\ highlightedElement \in Img \cup {NoElement, GoneElement}
    /\ highlightedElementOriginalStyle \in Attribute
    /\ pageStyle \in [Img -> Style]
    /\ overridden \subseteq Img
    /\ pageLeft \in BOOLEAN

HoverInit ==
    /\ page \in Page
    /\ style = [e \in Img |-> Plain(NoStyle)]
    /\ highlightedElement = NoElement
    /\ highlightedElementOriginalStyle = Plain(NoStyle)
    /\ pageStyle = [e \in Img |-> NoStyle]
    /\ overridden = {}
    /\ pageLeft = FALSE

-----------------------------------------------------------------------------
StylesRestored_Removed ==  \* mutant: the attribute is emptied
    IF highlightedElement \in Img
      THEN [style EXCEPT ![highlightedElement] = Plain(NoStyle)]
      ELSE style

\* The styles after the highlighted element, if any, got its own one back.
StylesRestored ==
    IF highlightedElement \in Img
      THEN [style EXCEPT ![highlightedElement] = highlightedElementOriginalStyle]
      ELSE style

Highlighted(attribute) == [attribute EXCEPT !.highlights = @ + 1]

mouseLeaves_HintStays ==  \* mutant: the status line is left alone
    /\ highlightedElement # NoElement
    /\ style' = StylesRestored
    /\ highlightedElement' = NoElement
    /\ highlightedElementOriginalStyle' = Plain(NoStyle)
    /\ pageLeft' = FALSE
    /\ UNCHANGED <<statusLine, page, pageStyle, overridden>>

\* The pointer is over something that is no image.
mouseLeaves ==
    /\ highlightedElement # NoElement
    /\ style' = StylesRestored
    /\ highlightedElement' = NoElement
    /\ highlightedElementOriginalStyle' = Plain(NoStyle)
    /\ setStatusMessage("")
    /\ pageLeft' = FALSE
    /\ UNCHANGED <<page, pageStyle, overridden>>

mouseMovesOver_NotRestored(img) ==  \* mutant: the image before it is forgotten
    /\ PageOf[img] = page
    /\ img # highlightedElement
    /\ highlightedElement' = img
    /\ highlightedElementOriginalStyle' = style[img]
    /\ style' = [style EXCEPT ![img] = Highlighted(style[img])]
    /\ setStatusMessage("webview_image_hover")
    /\ pageLeft' = FALSE
    /\ UNCHANGED <<page, pageStyle, overridden>>

(***************************************************************************)
(* mouseDidMoveOverElement: over an image of the page, another than the    *)
(* highlighted one (isSameNode: returns early).                            *)
(***************************************************************************)
mouseMovesOver(img) ==
    /\ PageOf[img] = page
    /\ img # highlightedElement
    /\ highlightedElement' = img
    /\ highlightedElementOriginalStyle' = style[img]
    /\ style' = [StylesRestored EXCEPT ![img] = Highlighted(style[img])]
    /\ setStatusMessage("webview_image_hover")
    /\ pageLeft' = FALSE
    /\ UNCHANGED <<page, pageStyle, overridden>>

\* A script of the page displayed sets the attribute.
PageSetsStyle(img, s) ==
    /\ PageOf[img] = page
    /\ style' = [style EXCEPT ![img] = Plain(s)]
    /\ pageStyle' = [pageStyle EXCEPT ![img] = s]
    /\ overridden' = IF img = highlightedElement THEN overridden \cup {img} ELSE overridden \ {img}
    /\ UNCHANGED <<page, highlightedElement, highlightedElementOriginalStyle, pageLeft, statusLine>>

(***************************************************************************)
(* A page is loaded: a link, the search of the web tab, a popup, which     *)
(* createWebViewWithRequest sends to the same view, or the page before,    *)
(* when WebKit did not keep it.  Its images are new elements.              *)
(***************************************************************************)
LoadPage(p) ==
    /\ page' = p
    /\ style' = [e \in Img |-> IF PageOf[e] = p THEN Plain(NoStyle) ELSE style[e]]
    /\ pageStyle' = [e \in Img |-> IF PageOf[e] = p THEN NoStyle ELSE pageStyle[e]]
    /\ overridden' = {e \in overridden : PageOf[e] # p}
    /\ highlightedElement' =
           IF highlightedElement \in Img /\ PageOf[highlightedElement] = p
             THEN GoneElement ELSE highlightedElement
    /\ pageLeft' = TRUE
    /\ UNCHANGED <<highlightedElementOriginalStyle, statusLine>>

\* The page before, kept by WebKit as it was left: webViewClose and the history.
webViewClose(p) ==
    /\ p # page
    /\ page' = p
    /\ pageLeft' = TRUE
    /\ UNCHANGED <<style, highlightedElement, highlightedElementOriginalStyle,
                   pageStyle, overridden, statusLine>>

HoverNext ==
    \/ mouseLeaves
    \/ \E img \in Img : mouseMovesOver(img) \/ \E s \in Style : PageSetsStyle(img, s)
    \/ \E p \in Page : LoadPage(p) \/ webViewClose(p)

-----------------------------------------------------------------------------
(***************************************************************************)
(* An image wears the highlight only while it is the highlighted one, and  *)
(* never twice, on whichever page, also one that was left with the pointer *)
(* over the image and came back.                                           *)
(***************************************************************************)
OnlyHoveredIsMarked ==
    \A e \in Img : style[e].highlights <= IF e = highlightedElement THEN 1 ELSE 0

(***************************************************************************)
(* Every other image has the style its page gave it last, unless the page  *)
(* changed it while it was highlighted.                                    *)
(***************************************************************************)
StyleGivenBack ==
    \A e \in Img :
        e # highlightedElement /\ e \notin overridden => style[e] = Plain(pageStyle[e])
===============================================================================
