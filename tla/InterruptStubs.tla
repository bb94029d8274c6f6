--------------------------- MODULE InterruptStubs ----------------------------
(* The interrupt interface, id 33000: the server half only.  The sequence   *)
(* number it passes on is in the trailer, which the kernel writes.           *)
EXTENDS MigMessage, TLC

interrupt_operation_Request == Shape(<<>>, <<>>)
Xinterrupt_operation ==
  Routine("interrupt_operation", interrupt_operation_Request, <<>>, <<>>,
          Shape(<<>>, RetCode), <<>>)
interrupt_operation == CallerOf(33000, Xinterrupt_operation)

interrupt_server ==
  [name |-> "interrupt", table |->
    33000 :> Xinterrupt_operation]

Callers ==
  {interrupt_operation}
==============================================================================
