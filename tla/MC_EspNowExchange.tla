------------------------- MODULE MC_EspNowExchange ---------------------------
(***************************************************************************)
(* Instances of EspNowExchange for TLC.                                    *)
(***************************************************************************)
EXTENDS EspNowExchange

CONSTANTS cA, cB

TwoCentrals == {cA, cB}

\* Auto pairing in either mode, and a listener paired by hand.
Kinds == [form : {"magic"}, listener : BOOLEAN] \cup {[form |-> "plain", listener |-> TRUE]}

\* Both directions, auto or manual; receive-only; transmit-only.
MCSettings ==
    [rx : {TRUE}, tx : {TRUE}, peer : {NoCentral}, collector : {FALSE}]
        \cup [rx : {TRUE}, tx : {TRUE}, peer : {cA}, collector : {TRUE, FALSE}]
        \cup [rx : {TRUE}, tx : {FALSE}, peer : {NoCentral}, collector : {FALSE}]
        \cup [rx : {FALSE}, tx : {TRUE}, peer : {cA}, collector : {FALSE}]
============================================================================
