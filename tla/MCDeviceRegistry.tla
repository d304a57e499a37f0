-------------------------- MODULE MCDeviceRegistry --------------------------
(***************************************************************************)
(* Instances of DeviceRegistry for TLC: three devices, of which e1 and e2  *)
(* may be given the same address s, and each also has one of its own.      *)
(***************************************************************************)
EXTENDS DeviceRegistry, TLC

CONSTANTS e1, e2, e3, a1, a2, a3, s

SharedAndOwn == (e1 :> {a1, s}) @@ (e2 :> {a2, s}) @@ (e3 :> {a3})
=============================================================================
