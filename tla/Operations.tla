------------------------------ MODULE Operations ------------------------------
(* The operations clients perform on a cached object (CacheWise/Operation). *)
EXTENDS Naturals

CONSTANTS
  Ops,      \* operations, by method name and arguments
  Invalid   \* those whose call fails: Invocation.validate refuses them, or
            \* their method throws

ASSUME OperationsAssumption == Invalid \subseteq Ops

\* An Operation: its name and arguments, and the version it is to produce.
Message(op, ver) == [op |-> op, ver |-> ver]
=============================================================================
