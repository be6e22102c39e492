---------------------------- MODULE StatusDelegate ----------------------------
(***************************************************************************)
(* AppDelegate's progress indicator and status line, which everything that *)
(* works or hovers in the main window shares.                              *)
(***************************************************************************)
VARIABLES
    isBusy,
    statusMessage       \* "" or the key of the localized text

statusLine == <<isBusy, statusMessage>>

Message == {"", "loading_image", "downloading_image", "webview_image_hover"}

StatusTypeOK == isBusy \in BOOLEAN /\ statusMessage \in Message

setStatusMessage(message) == statusMessage' = message /\ UNCHANGED isBusy

startBusy(message) == isBusy' = TRUE /\ statusMessage' = message

clearBusy == isBusy' = FALSE /\ statusMessage' = ""
===============================================================================
