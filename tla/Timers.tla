------------------------------- MODULE Timers -------------------------------
(***************************************************************************)
(* The IEC on-delay timer of src/plc/forklift/double/logic.py, which both  *)
(* programs of the virtual PLC run on, counted in calls: it holds the      *)
(* number of consecutive calls with its input true, up to the one at which *)
(* Q rises.  The rising call gets no credit.                               *)
(***************************************************************************)
EXTENDS Naturals

Ton(calls, input, pt) ==
    IF ~input THEN 0 ELSE IF calls > pt THEN calls ELSE calls + 1
Q(calls, pt) == calls > pt
=============================================================================
