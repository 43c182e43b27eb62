------------------------------ MODULE MCWebUsb ------------------------------
(* The instance of WebUsb that TLC checks. *)
EXTENDS WebUsb

CONSTANTS a, b, f1, f2

TwoDevices  == {a, b}
TwoForwards == {f1, f2}
=============================================================================
