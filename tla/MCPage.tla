-------------------------------- MODULE MCPage --------------------------------
\* Two ticks to the standard, and a browser that may call one tick late.
EXTENDS Page
==============================================================================
