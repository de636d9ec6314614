---------------------------- MODULE MCUsbSession ----------------------------
EXTENDS UsbRefinement
=============================================================================
