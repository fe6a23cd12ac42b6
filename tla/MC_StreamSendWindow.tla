------------------------ MODULE MC_StreamSendWindow ------------------------
(* A stream's send window, StreamSendWindow = SendWindow<StreamParams,    *)
(* NoTag>, at its real parameters (maximum 500, increment 50).  Its tag    *)
(* type is the unit type (), so put() gets Some(()) or None: the only tag  *)
(* value is the model value unit.                                          *)
EXTENDS SendWindow

CONSTANTS unit, none

MCMax == StreamParams.maximum
MCInc == StreamParams.increment
MCTags == {unit}
=============================================================================
