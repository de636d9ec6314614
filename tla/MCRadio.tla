------------------------------ MODULE MCRadio ------------------------------
EXTENDS RadioRefinement
=============================================================================
