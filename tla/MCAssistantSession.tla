-------------------------- MODULE MCAssistantSession --------------------------
(***************************************************************************)
(* Instances of AssistantSession for TLC, and what the repository's        *)
(* documents and assertions say of it.                                     *)
(***************************************************************************)
EXTENDS AssistantSession

CONSTANTS t1, t2, s1, s2

\* Two albums; the title of the second, cleaned, may be empty.
Albums == {{t1}, {t2}, {}}

TwoTitles == [list \in {{t1}, {t2}} |-> IF list = {t1} THEN s1 ELSE s2]

OneTitle == [list \in {{t1}, {t2}} |-> IF list = {t1} THEN s1 ELSE NoTitle]

Finished == {j \in jobs : j \notin jobs'}

(***************************************************************************)
(* The assertion in removeCurrentItemAndWarn: there is a selected image    *)
(* whenever an unavailable one is removed.                                 *)
(***************************************************************************)
SelectionIsInValidRange ==
    [][\A j \in Finished :
           j.phase = "failed" /\ j.item.source # "WebView" => selection # 0]_vars
===============================================================================
