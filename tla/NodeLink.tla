------------------------------- MODULE NodeLink -------------------------------
(***************************************************************************)
(* What a NodeEventSocket is to its owner: a link to the relay that is off,  *)
(* down or up, and that offers to carry signed writes only while it is up    *)
(* and the relay has said, on this very connection, that it takes them.      *)
(***************************************************************************)
VARIABLES
    link,      \* "off", "down" or "up"
    offers     \* accepts("agent-status")

linkVars == <<link, offers>>

LinkInit == link = "off" /\ offers = FALSE

SwitchOn == link = "off" /\ link' = "down" /\ UNCHANGED offers
SwitchOff == link # "off" /\ link' = "off" /\ offers' = FALSE
GoesUp == link = "down" /\ link' = "up" /\ UNCHANGED offers
GoesDown == link = "up" /\ link' = "down" /\ offers' = FALSE

\* A relay may also take back what it offered.
Hello == link = "up" /\ UNCHANGED link /\ offers' \in BOOLEAN

LinkNext == SwitchOn \/ SwitchOff \/ GoesUp \/ GoesDown \/ Hello

LinkSpec == LinkInit /\ [][LinkNext]_linkVars
=============================================================================
