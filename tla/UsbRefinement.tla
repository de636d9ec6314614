---------------------------- MODULE UsbRefinement ----------------------------
(***************************************************************************)
(* The charger and the USB worker implement DataLines: the mutex, the      *)
(* flags, the runtime-PM reference and the clock both drivers gate are one *)
(* pair of data lines that is used by one of them at a time.               *)
(***************************************************************************)
EXTENDS UsbSession

Lines == INSTANCE DataLines
           WITH detecting <- (mutex = "charger"), session <- attached,
                verdict <- dataOk, over <- result

(* Whatever fails, is plugged in or suspended between two of their steps:    *)
(* the BC1.1 switch and a session take turns, a session is opened only on a  *)
(* verdict that stands and never after a terminal fault, and the clock under *)
(* either stays (y2_usb_bc11_begin and _end, y2_usb_worker, y2_charger_run,  *)
(* y2_usb_bus_gate).                                                         *)
ImplementsLines == Lines!Spec
==============================================================================
