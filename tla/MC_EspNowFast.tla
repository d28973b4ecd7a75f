---------------------------- MODULE MC_EspNowFast ----------------------------
\* Two nodes of the asymmetric ESP-NOW mode for TLC.
EXTENDS EspNowFast
==============================================================================
