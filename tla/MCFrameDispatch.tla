--------------------------- MODULE MCFrameDispatch ----------------------------
(***************************************************************************)
(* Instances of FrameDispatch for TLC: bytes of one bit, so that addresses *)
(* have two; two devices that may share the address 3, and a third one     *)
(* whose address reads like the cluster of every message.                  *)
(***************************************************************************)
EXTENDS FrameDispatch, TLC

Zeros == <<0, 0, 0, 0, 0, 0>>
D1 == <<1, 0>> \o Zeros
D2 == <<0, 1>> \o Zeros
D3 == Zeros \o <<0, 1>>

ThreeDevices == {D1, D2, D3}
SharedAndOwn == (D1 :> {1, 3}) @@ (D2 :> {2, 3}) @@ (D3 :> {0})
NoneOrOneByte == {<<>>, <<1>>}
=============================================================================
